---- MODULE Spec2Model ----
(***************************************************************************)
(* State machine of xenia's D3D12 PipelineCache                            *)
(* (src/xenia/gpu/d3d12/pipeline_cache.cc): the shader map, the pipeline   *)
(* state table with its one-slot "current" cache, the creation thread      *)
(* pool with its completion event, the storage write thread and the two    *)
(* storage files.                                                          *)
(*                                                                         *)
(* Threads: the processor thread (every public method runs on it, one at   *)
(* a time; pc is its position), the creation threads (wstate), the         *)
(* storage write thread (storage_write_thread_).                           *)
(***************************************************************************)
EXTENDS Integers, Sequences, FiniteSets, TLC

(***************************************************************************)
(* Bounds of the model.                                                    *)
(***************************************************************************)
\* Shader microcode hashes are 1..MaxShader.
MaxShader == 3
\* Values of the one render-target blend field kept in a description.
MaxBlend == 1
\* PipelineState objects alive at one time.
MaxEntries == 2
\* Calls of ConfigurePipeline, EndSubmission, ClearCache, Shutdown and
\* InitializeShaderStorage made by the command processor in one run.
MaxCalls == 3
\* Creation threads when the pool is enabled.
MaxThreads == 2
\* xe::threading::logical_processor_count().
LogicalProcessors == 4
\* Initialize is checked for reported processor counts 0..MaxProcessorCount
\* (0: not determined) and for the cvar values -2..MaxCvarThreads.
MaxProcessorCount == 9
MaxCvarThreads == 10
\* Size of the modelled range of XXH64 over descriptions.
HashRange == 2
\* Dwords of a shader storage file read from disk are 0..MaxWord, and the
\* file has at most MaxBodyLen dwords after its header.
MaxWord == 2
MaxBodyLen == 6

NULL == 0
SIZE_MAX == 2147483647

Shaders == 1..MaxShader
Entries == 1..MaxEntries
Threads == 0..(MaxThreads - 1)
\* The translation threads a load of the shader storage can create: one
\* less than the logical processors.
TranslationThreads == 1..(LogicalProcessors - 1)

(***************************************************************************)
(* External collaborators.                                                 *)
(***************************************************************************)
\* ShaderType of a microcode program: odd hashes are vertex shaders, even
\* hashes pixel shaders.
IsVertexShader(s) == s % 2 = 1
\* DxbcShaderTranslator::Translate is a pure function of the microcode: the
\* programs 1 and 2 translate, the others have a fatal error.
TranslatorValid(s) == s <= 2

\* Shader::is_translated() and Shader::is_valid() over the translation state
\* {Untranslated, Translated, Failed} of a shader object.
is_translated(st) == st \in {"Translated", "Failed"}
is_valid(st) == st = "Translated"

\* PipelineDescription: the shader hashes (pixel_shader_hash 0 when there is
\* no pixel shader) and one blend field standing for the rest of the record.
Descriptions ==
  [vs : {s \in Shaders : IsVertexShader(s)},
   ps : {0} \cup {s \in Shaders : ~IsVertexShader(s)},
   rt : 0..MaxBlend]
NoDesc == [vs |-> 0, ps |-> 0, rt |-> 0]

\* XXH64(&description, sizeof(description), 0): a function of the bytes with
\* a small range, so that different descriptions can collide.
DescHash(d) == (d.vs + d.ps + d.rt) % HashRange

VARIABLES
  \* processor thread
  pc, op, calls, arg, out, path, reinitialize_shader_storage, blocking,
  pipeline_stored_descriptions, replay_next, creation_thread_original_count,
  pipeline_state_storage_valid_bytes,
  \* what xe::threading::logical_processor_count() returns, and the cvar
  logical_processor_count, d3d12_pipeline_creation_threads,
  \* the shaders the last load of the shader storage inserted and erased
  shaders_failed_to_translate,
  \* the load of the shader storage, record by record: the position in the
  \* file, and the locals the translation threads share
  shader_storage_pos, shader_storage_valid_bytes, shaders_to_translate,
  shader_translation_threads, shader_translation_threads_busy,
  shader_translation_threads_shutdown, tstate, tshader,
  \* shader map
  shader_map_, shader_ucode, translations,
  \* pipeline state table
  pipeline_states_, edesc, estate, current_pipeline_state_, builds,
  replay_created,
  \* creation threads
  creation_threads_, creation_queue_, creation_threads_busy_,
  creation_completion_event_, creation_completion_set_event_,
  creation_threads_shutdown_from_, wstate, wentry,
  \* shader storage
  shader_storage_file_, pipeline_state_storage_file_, storage_write_thread_,
  storage_write_shader_queue_, storage_write_pipeline_state_queue_,
  shader_storage_file_flush_needed_, pipeline_state_storage_file_flush_needed_,
  storage_write_flush_shaders_, storage_write_flush_pipeline_states_,
  storage_write_thread_shutdown_, flush_shaders, flush_pipeline_states,
  shader_log, pipeline_log,
  \* history: the records pushed to the two write queues since the storage
  \* was opened, and the lengths the files had then
  shader_enqueued, pipeline_state_enqueued, shader_log_opened,
  pipeline_log_opened

translationVars == <<shader_storage_pos, shader_storage_valid_bytes,
                     shaders_to_translate, shader_translation_threads,
                     shader_translation_threads_busy,
                     shader_translation_threads_shutdown, tstate, tshader>>
procVars == <<pc, op, calls, arg, out, path, reinitialize_shader_storage, blocking,
              pipeline_stored_descriptions, replay_next,
              creation_thread_original_count,
              pipeline_state_storage_valid_bytes,
              logical_processor_count, d3d12_pipeline_creation_threads,
              shaders_failed_to_translate, translationVars>>
shaderVars == <<shader_map_, shader_ucode, translations>>
tableVars == <<pipeline_states_, edesc, estate, current_pipeline_state_,
               builds, replay_created>>
poolVars == <<creation_threads_, creation_queue_, creation_threads_busy_,
              creation_completion_event_, creation_completion_set_event_,
              creation_threads_shutdown_from_, wstate, wentry>>
storageVars == <<shader_storage_file_, pipeline_state_storage_file_,
                 storage_write_thread_, storage_write_shader_queue_,
                 storage_write_pipeline_state_queue_,
                 shader_storage_file_flush_needed_,
                 pipeline_state_storage_file_flush_needed_,
                 storage_write_flush_shaders_,
                 storage_write_flush_pipeline_states_,
                 storage_write_thread_shutdown_, flush_shaders,
                 flush_pipeline_states, shader_log, pipeline_log,
                 shader_enqueued, pipeline_state_enqueued,
                 shader_log_opened, pipeline_log_opened>>
vars == <<procVars, shaderVars, tableVars, poolVars, storageVars>>

(***************************************************************************)
(* PipelineCache::Initialize: the number of creation threads.              *)
(***************************************************************************)
Min(a, b) == IF a < b THEN a ELSE b
Max(a, b) == IF a > b THEN a ELSE b

\* The local logical_processor_count after `if (!logical_processor_count)`:
\* 6 when the count could not be determined.
LogicalProcessorCount(reported) == IF reported = 0 THEN 6 ELSE reported

\* A pool that takes three quarters of the processors with no lower limit.
creation_thread_count_NoMax(cvar, processors) ==
  IF cvar = 0 THEN 0
  ELSE IF cvar < 0 THEN (processors * 3) \div 4
  ELSE Min(cvar, processors)
\* creation_thread_count, for the value of the cvar
\* d3d12_pipeline_creation_threads and the local logical_processor_count.
\* The product is computed in uint32_t and does not wrap for the processor
\* counts a host reports (below 2^32 / 3).
creation_thread_count(cvar, processors) ==
  IF cvar = 0 THEN 0
  ELSE IF cvar < 0 THEN Max((processors * 3) \div 4, 1)
  ELSE Min(cvar, processors)

(***************************************************************************)
(* The shader storage file, as a sequence of dwords.                       *)
(***************************************************************************)
\* 'XESH'
shader_storage_magic == 1213416792
\* ShaderStoredHeader::kVersion
kVersion == 1
\* xe::byte_swap of a uint32_t.
byte_swap(x) ==
  (x % 256) * 16777216 + ((x \div 256) % 256) * 65536
  + ((x \div 65536) % 256) * 256 + ((x \div 16777216) % 256)
\* sizeof(shader_storage_file_header) and sizeof(ShaderStoredHeader) in
\* dwords: {magic, version_swapped}, and {ucode_data_hash,
\* ucode_dword_count} with the fields the model does not follow left out.
FileHeaderSize == 2
ShaderStoredHeaderSize == 2

RECURSIVE SumSeq(_)
SumSeq(q) == IF q = <<>> THEN 0 ELSE Head(q) + SumSeq(Tail(q))
\* XXH64(ucode_dwords.data(), ucode_byte_count, 0): a function of the dwords
\* with the shader hashes as its range.
XXH64(dwords) ==
  ((SumSeq(dwords) + Len(dwords) + MaxShader - 2) % MaxShader) + 1

\* The guest-endian microcode whose hash is s, as LoadShader receives it.
GuestUcode(s) == <<s>>
\* xe::copy_and_swap
copy_and_swap(dwords) == [i \in 1..Len(dwords) |-> byte_swap(dwords[i])]
\* Shader::ucode_dwords(): the microcode in host endianness.
ucode_dwords(s) == copy_and_swap(GuestUcode(s))
\* A writer that writes every record twice, and one that writes the
\* microcode as it is kept, in host endianness.
ShaderStoredRecord_Twice(ucode_data_hash, dwords) ==
  <<ucode_data_hash, Len(dwords)>> \o copy_and_swap(dwords)
  \o <<ucode_data_hash, Len(dwords)>> \o copy_and_swap(dwords)
ShaderStoredRecord_NoSwap(ucode_data_hash, dwords) ==
  <<ucode_data_hash, Len(dwords)>> \o dwords
\* What StorageWriteThread writes for a shader with this hash and these
\* ucode_dwords(): the header, then the microcode swapped back to guest
\* endianness.
ShaderStoredRecord(ucode_data_hash, dwords) ==
  <<ucode_data_hash, Len(dwords)>> \o copy_and_swap(dwords)
\* The record of the shader that LoadShader made of GuestUcode(s).
ShaderRecord(s) == ShaderStoredRecord(s, ucode_dwords(s))
\* The file header InitializeShaderStorage writes into a new file.
ShaderFileHeader == <<shader_storage_magic, byte_swap(kVersion)>>
\* The test of the header read from the file.
HeaderValid(file) ==
  /\ Len(file) >= FileHeaderSize
  /\ file[1] = shader_storage_magic
  /\ byte_swap(file[2]) = kVersion

\* xe::filesystem::TruncateStdioFile: the file cut to `length`, or extended
\* with zeros when it is shorter.
TruncateStdioFile(file, length) ==
  IF length <= Len(file) THEN SubSeq(file, 1, length)
  ELSE file \o [i \in 1..(length - Len(file)) |-> 0]

\* The `while (true)` loop over the shader records, from file position pos
\* (in dwords): what it leaves in shader_map_, shader_storage_valid_bytes,
\* and the shaders it handed to the translation threads.  A Seek past the
\* end of the file succeeds, as fseek does; the fread after it fails.
RECURSIVE ShaderStorageLoop(_, _, _, _, _, _)
ShaderStorageLoop(file, pos, map, ucode, valid_bytes, to_translate) ==
  LET done == [map |-> map, ucode |-> ucode,
               shader_storage_valid_bytes |-> valid_bytes,
               shaders_to_translate |-> to_translate]
  IN IF pos + ShaderStoredHeaderSize > Len(file) THEN done
     ELSE LET ucode_data_hash == file[pos + 1]
              ucode_dword_count == file[pos + 2]
              next == pos + ShaderStoredHeaderSize + ucode_dword_count
              size == ShaderStoredHeaderSize + ucode_dword_count
          IN IF ucode_data_hash \in Shaders /\ map[ucode_data_hash] # "absent"
               THEN ShaderStorageLoop(file, next, map, ucode,
                                      valid_bytes + size, to_translate)
             ELSE IF ucode_dword_count # 0 /\ next > Len(file) THEN done
             ELSE IF XXH64(SubSeq(file, pos + ShaderStoredHeaderSize + 1, next))
                     # ucode_data_hash THEN done
             ELSE ShaderStorageLoop(
                    file, next, [map EXCEPT ![ucode_data_hash] = "Untranslated"],
                    [ucode EXCEPT ![ucode_data_hash] = copy_and_swap(
                       SubSeq(file, pos + ShaderStoredHeaderSize + 1, next))],
                    valid_bytes + size, Append(to_translate, ucode_data_hash))

(***************************************************************************)
(* The pipeline state storage file, as a sequence of dwords.               *)
(***************************************************************************)
\* 'XEPS'
pipeline_state_storage_magic == 1397769560
\* 'DXRT': the cache is built with edram_rov_used_ false; 'DXRO' is the tag
\* of the other mode.
pipeline_state_storage_magic_api == 1414682692
pipeline_state_storage_magic_rov == 1330796612
\* PipelineDescription::kVersion
PipelineDescription_kVersion == 1
\* sizeof(pipeline_state_storage_file_header) and
\* sizeof(PipelineStoredDescription) in dwords: {magic, magic_api,
\* version_swapped}, and {description_hash, description}.
PipelineFileHeaderSize == 3
PipelineStoredDescriptionSize == 4
\* What StorageWriteThread writes for a pipeline state: the
\* PipelineStoredDescription that ConfigurePipeline filled in.
PipelineStoredDescription(d) == <<DescHash(d), d.vs, d.ps, d.rt>>
\* The file header InitializeShaderStorage writes into a new file.
PipelineFileHeader ==
  <<pipeline_state_storage_magic, pipeline_state_storage_magic_api,
    byte_swap(PipelineDescription_kVersion)>>
\* A test that accepts the files of the other mode and of other versions.
PipelineHeaderValid_MagicOnly(file) ==
  /\ Len(file) >= PipelineFileHeaderSize
  /\ file[1] = pipeline_state_storage_magic
\* The test of the header read from the file.
PipelineHeaderValid(file) ==
  /\ Len(file) >= PipelineFileHeaderSize
  /\ file[1] = pipeline_state_storage_magic
  /\ file[2] = pipeline_state_storage_magic_api
  /\ byte_swap(file[3]) = PipelineDescription_kVersion
\* pipeline_state_storage_told_count: the whole records after the header.
ToldCount(file) ==
  IF Len(file) >= PipelineFileHeaderSize
    THEN (Len(file) - PipelineFileHeaderSize) \div PipelineStoredDescriptionSize
    ELSE 0
\* The fread of told_count records into pipeline_stored_descriptions.
ReadStoredDescriptions(file) ==
  [i \in 1..ToldCount(file) |->
     LET at == PipelineFileHeaderSize + (i - 1) * PipelineStoredDescriptionSize
     IN [description_hash |-> file[at + 1],
         description |-> [vs |-> file[at + 2], ps |-> file[at + 3],
                          rt |-> file[at + 4]]]]

\* What an earlier run can have left in the two storage files: nothing, or
\* the records of one pipeline state and its two shaders.
NoFiles == [shaders |-> <<>>, pipeline_states |-> <<>>]
StoredFiles ==
  {NoFiles,
   [shaders |-> ShaderFileHeader \o ShaderRecord(1) \o ShaderRecord(2),
    pipeline_states |->
      PipelineFileHeader \o
      PipelineStoredDescription([vs |-> 1, ps |-> 2, rt |-> 0])]}

\* The state after the constructor and Initialize(): empty maps, the
\* completion event created set, no storage opened yet.
InitFields(stored) ==
  /\ calls = 0 /\ arg = NoDesc
  /\ out = NULL
  /\ shaders_failed_to_translate = {}
  /\ shader_storage_pos = 0 /\ shader_storage_valid_bytes = 0
  /\ shaders_to_translate = <<>>
  /\ shader_translation_threads = 0
  /\ shader_translation_threads_busy = 0
  /\ shader_translation_threads_shutdown = FALSE
  /\ tstate = [t \in TranslationThreads |-> "none"]
  /\ tshader = [t \in TranslationThreads |-> 0]
  /\ path = "none"
  /\ reinitialize_shader_storage = FALSE /\ blocking = FALSE
  /\ pipeline_stored_descriptions = <<>> /\ replay_next = 1
  /\ creation_thread_original_count = 0
  /\ pipeline_state_storage_valid_bytes = 0
  /\ shader_map_ = [s \in Shaders |-> "absent"]
  /\ shader_ucode = [s \in Shaders |-> <<>>]
  /\ translations = [s \in Shaders |-> 0]
  /\ pipeline_states_ = {}
  /\ edesc = [e \in Entries |-> NoDesc]
  /\ estate = [e \in Entries |-> "unallocated"]
  /\ current_pipeline_state_ = NULL
  /\ replay_created = {}
  /\ builds = [e \in Entries |-> 0]
  /\ creation_queue_ = <<>>
  /\ creation_threads_busy_ = 0
  /\ creation_completion_event_ = TRUE
  /\ creation_completion_set_event_ = FALSE
  /\ creation_threads_shutdown_from_ = SIZE_MAX
  /\ wentry = [w \in Threads |-> NULL]
  /\ shader_storage_file_ = FALSE
  /\ pipeline_state_storage_file_ = FALSE
  /\ storage_write_thread_ = "none"
  /\ storage_write_shader_queue_ = <<>>
  /\ storage_write_pipeline_state_queue_ = <<>>
  /\ shader_storage_file_flush_needed_ = FALSE
  /\ pipeline_state_storage_file_flush_needed_ = FALSE
  /\ storage_write_flush_shaders_ = FALSE
  /\ storage_write_flush_pipeline_states_ = FALSE
  /\ storage_write_thread_shutdown_ = FALSE
  /\ flush_shaders = FALSE
  /\ flush_pipeline_states = FALSE
  /\ \E files \in stored :
       /\ shader_log = files.shaders
       /\ pipeline_log = files.pipeline_states
       /\ shader_log_opened = Len(files.shaders)
       /\ pipeline_log_opened = Len(files.pipeline_states)
  /\ shader_enqueued = <<>>
  /\ pipeline_state_enqueued = <<>>
\* The creation threads Initialize() has started: only the first MaxThreads
\* have their position modelled.
StartedThreads(count) ==
  [w \in Threads |-> IF w < count THEN "check" ELSE "none"]
InitWithProcessors(cvars, stored, processor_counts) ==
  /\ pc = "idle" /\ op = "Initialize"
  /\ logical_processor_count \in processor_counts
  /\ d3d12_pipeline_creation_threads \in cvars
  /\ creation_threads_ =
       creation_thread_count(d3d12_pipeline_creation_threads,
                             LogicalProcessorCount(logical_processor_count))
  /\ wstate = StartedThreads(creation_threads_)
  /\ InitFields(stored)
\* The same on a host with LogicalProcessors processors.
InitWith(cvars, stored) ==
  InitWithProcessors(cvars, stored, {LogicalProcessors})

\* PipelineCache::Initialize, called on the constructed object.
Initialize ==
  /\ pc = "constructed"
  /\ pc' = "idle" /\ op' = "Initialize"
  /\ creation_threads_busy_' = 0
  /\ creation_completion_event_' = TRUE
  /\ creation_completion_set_event_' = FALSE
  /\ creation_threads_shutdown_from_' = SIZE_MAX
  /\ creation_threads_' =
       creation_thread_count(d3d12_pipeline_creation_threads,
                             LogicalProcessorCount(logical_processor_count))
  /\ wstate' = StartedThreads(creation_threads_')
  /\ UNCHANGED <<calls, arg, out, path, reinitialize_shader_storage, blocking,
                 pipeline_stored_descriptions, replay_next,
                 creation_thread_original_count,
                 pipeline_state_storage_valid_bytes,
                 logical_processor_count, d3d12_pipeline_creation_threads,
                 shaders_failed_to_translate, translationVars,
                 shaderVars, tableVars, creation_queue_, wentry, storageVars>>

(***************************************************************************)
(* std::deque                                                              *)
(***************************************************************************)
\* A push that stores the element twice.
push_back_Twice(q, x) == Append(Append(q, x), x)
push_back(q, x) == Append(q, x)
\* A pop that leaves the front element in place.
pop_front_Keep(q) == q
pop_front(q) == Tail(q)

(***************************************************************************)
(* Condition variables.                                                    *)
(***************************************************************************)
NoThread == -1
\* A notify_one that wakes nobody.
NotifyOneChoices_Lost == {NoThread}
\* creation_request_cond_.notify_one(): one of the waiting threads, if any.
NotifyOneChoices ==
  IF \E w \in Threads : wstate[w] = "wait"
    THEN {w \in Threads : wstate[w] = "wait"}
    ELSE {NoThread}
Woken(ws, n) == IF n \in Threads THEN [ws EXCEPT ![n] = "check"] ELSE ws
\* creation_request_cond_.notify_all().
NotifyAll(ws) ==
  [w \in Threads |-> IF ws[w] = "wait" THEN "check" ELSE ws[w]]
\* storage_write_request_cond_.notify_one() / notify_all(): one waiter at most.
NotifyWriter(t) == IF t = "wait" THEN "run" ELSE t

(***************************************************************************)
(* The external factory and translator.                                    *)
(***************************************************************************)
\* device->CreateGraphicsPipelineState: an object, or nullptr on FAILED.
FactoryResults == {"object", "null"}

\* DxbcShaderTranslator::Translate marks the shader translated, and valid
\* unless a fatal error was found.
Translate(sm, s) ==
  [sm EXCEPT ![s] = IF TranslatorValid(s) THEN "Translated" ELSE "Failed"]

\* PipelineCache::TranslateShader returns shader->is_valid().
TranslateShader(sm, s) == is_valid(Translate(sm, s)[s])

(***************************************************************************)
(* PipelineCache::LoadShader                                               *)
(***************************************************************************)
\* A load that makes a new shader object at every call.
LoadShader_Replace(host_address) ==
  LET data_hash == XXH64(host_address)
  IN /\ pc = "idle"
     /\ op' = "LoadShader" /\ arg' = NoDesc /\ path' = "none"
     /\ out' = data_hash
     /\ shader_map_' = [shader_map_ EXCEPT ![data_hash] = "Untranslated"]
     /\ shader_ucode' =
          [shader_ucode EXCEPT ![data_hash] = copy_and_swap(host_address)]
     /\ UNCHANGED <<pc, calls, reinitialize_shader_storage, blocking,
                    pipeline_stored_descriptions, replay_next,
                    creation_thread_original_count,
                    logical_processor_count, d3d12_pipeline_creation_threads,
                    shaders_failed_to_translate, translationVars,
                    pipeline_state_storage_valid_bytes, translations,
                    tableVars, poolVars, storageVars>>
\* host_address: the microcode in guest memory.  The call returns the shader
\* of the map, or the new D3D12Shader, which keeps the microcode in host
\* endianness.
LoadShader(host_address) ==
  LET data_hash == XXH64(host_address)
  IN /\ pc = "idle"
     /\ op' = "LoadShader" /\ arg' = NoDesc /\ path' = "none"
     /\ out' = data_hash
     /\ IF shader_map_[data_hash] # "absent"
          THEN UNCHANGED <<shader_map_, shader_ucode>>
          ELSE /\ shader_map_' =
                    [shader_map_ EXCEPT ![data_hash] = "Untranslated"]
               /\ shader_ucode' =
                    [shader_ucode EXCEPT ![data_hash] =
                       copy_and_swap(host_address)]
     /\ UNCHANGED <<pc, calls, reinitialize_shader_storage, blocking,
                    pipeline_stored_descriptions, replay_next,
                    creation_thread_original_count,
                    logical_processor_count, d3d12_pipeline_creation_threads,
                    shaders_failed_to_translate, translationVars,
                    pipeline_state_storage_valid_bytes, translations,
                    tableVars, poolVars, storageVars>>

(***************************************************************************)
(* PipelineCache::EnsureShadersTranslated                                  *)
(***************************************************************************)
\* A version that queues the shaders of every call for the storage,
\* translated by this call or before it.
EnsureShadersTranslated_EnqueueAlways(vertex_shader, pixel_shader) ==
  LET t1 == ~is_translated(shader_map_[vertex_shader])
      ok1 == ~t1 \/ TranslateShader(shader_map_, vertex_shader)
      sm1 == IF t1 THEN Translate(shader_map_, vertex_shader)
             ELSE shader_map_
      q1 == IF ok1 /\ shader_storage_file_
              THEN <<vertex_shader>> ELSE <<>>
      t2 == ok1 /\ pixel_shader # 0 /\ ~is_translated(sm1[pixel_shader])
      ok2 == ok1 /\ (~t2 \/ TranslateShader(sm1, pixel_shader))
      sm2 == IF t2 THEN Translate(sm1, pixel_shader) ELSE sm1
      q2 == IF pixel_shader # 0 /\ ok2 /\ shader_storage_file_
              THEN <<pixel_shader>> ELSE <<>>
  IN [ok |-> ok2, map |-> sm2, queued |-> q1 \o q2,
      translated |-> (IF t1 THEN {vertex_shader} ELSE {}) \cup
                     (IF t2 THEN {pixel_shader} ELSE {})]
EnsureShadersTranslated(vertex_shader, pixel_shader) ==
  LET t1 == ~is_translated(shader_map_[vertex_shader])
      ok1 == ~t1 \/ TranslateShader(shader_map_, vertex_shader)
      sm1 == IF t1 THEN Translate(shader_map_, vertex_shader)
             ELSE shader_map_
      q1 == IF t1 /\ ok1 /\ shader_storage_file_
              THEN <<vertex_shader>> ELSE <<>>
      t2 == ok1 /\ pixel_shader # 0 /\ ~is_translated(sm1[pixel_shader])
      ok2 == ok1 /\ (~t2 \/ TranslateShader(sm1, pixel_shader))
      sm2 == IF t2 THEN Translate(sm1, pixel_shader) ELSE sm1
      q2 == IF t2 /\ ok2 /\ shader_storage_file_
              THEN <<pixel_shader>> ELSE <<>>
  IN [ok |-> ok2, map |-> sm2, queued |-> q1 \o q2,
      translated |-> (IF t1 THEN {vertex_shader} ELSE {}) \cup
                     (IF t2 THEN {pixel_shader} ELSE {})]

(***************************************************************************)
(* PipelineCache::ConfigurePipeline                                        *)
(***************************************************************************)
\* pipeline_states_.equal_range(hash)
EqualRange(hash) == {e \in pipeline_states_ : DescHash(edesc[e]) = hash}
\* A lookup that never matches: every call is treated as a miss.
FindPipelineState_NoMatch(d) == {}
\* A lookup that trusts the hash: every entry of the range matches.
FindPipelineState_HashOnly(d) == EqualRange(DescHash(d))
\* The loop over found_range with memcmp: the entries of the range whose
\* description is byte-equal.
FindPipelineState(d) == {e \in EqualRange(DescHash(d)) : edesc[e] = d}
\* The current_pipeline_state_ test at the top of ConfigurePipeline.
IsCurrent(d) ==
  current_pipeline_state_ # NULL /\ edesc[current_pipeline_state_] = d

\* A failing call that also forgets the current pipeline state.
ConfigureFail_ClearsCurrent(why) ==
  /\ out' = NULL /\ path' = why
  /\ current_pipeline_state_' = NULL
  /\ UNCHANGED <<shaderVars, pipeline_states_, edesc, estate, builds,
                 replay_created, poolVars, storageVars>>
ConfigureFail(why) ==
  /\ out' = NULL /\ path' = why
  /\ UNCHANGED <<shaderVars, tableVars, poolVars, storageVars>>

ConfigureHit(e, how) ==
  /\ out' = e /\ path' = how
  /\ current_pipeline_state_' = e
  /\ UNCHANGED <<shaderVars, pipeline_states_, edesc, estate, builds,
                 replay_created, poolVars, storageVars>>

\* A test that takes the list of creation threads for non-empty.
creation_threads_not_empty_Always == TRUE
\* !creation_threads_.empty()
creation_threads_not_empty == creation_threads_ # 0

\* new PipelineState: a free address (the allocator reuses freed memory).
NewPipelineState ==
  CHOOSE e \in Entries \ pipeline_states_ :
    \A f \in Entries \ pipeline_states_ : e <= f
\* Room for one more PipelineState.
CanCreate == Cardinality(pipeline_states_) < MaxEntries

\* From EnsureShadersTranslated to the end of ConfigurePipeline.
ConfigureMiss(d) ==
  LET r == EnsureShadersTranslated(d.vs, d.ps)
      e == NewPipelineState
      pool == creation_threads_not_empty
  IN /\ shader_map_' = r.map
     /\ UNCHANGED shader_ucode
     /\ translations' = [s \in Shaders |->
                           translations[s] + IF s \in r.translated THEN 1 ELSE 0]
     /\ storage_write_shader_queue_' = storage_write_shader_queue_ \o r.queued
     /\ shader_enqueued' =
          shader_enqueued \o
          [i \in 1..Len(r.queued) |->
             [hash |-> r.queued[i], dwords |-> shader_ucode[r.queued[i]]]]
     /\ shader_storage_file_flush_needed_' =
          (shader_storage_file_flush_needed_ \/ r.queued # <<>>)
     /\ IF ~r.ok
          THEN /\ out' = NULL /\ path' = "untranslated"
               /\ storage_write_thread_' =
                    IF r.queued # <<>> THEN NotifyWriter(storage_write_thread_)
                    ELSE storage_write_thread_
               /\ UNCHANGED <<tableVars, poolVars,
                              storage_write_pipeline_state_queue_,
                              pipeline_state_enqueued,
                              pipeline_state_storage_file_flush_needed_>>
          ELSE /\ out' = e /\ path' = "created"
               /\ pipeline_states_' = pipeline_states_ \cup {e}
               /\ edesc' = [edesc EXCEPT ![e] = d]
               /\ current_pipeline_state_' = e
               /\ IF pool
                    THEN /\ creation_queue_' = push_back(creation_queue_, e)
                         /\ \E n \in NotifyOneChoices : wstate' = Woken(wstate, n)
                         /\ estate' = [estate EXCEPT ![e] = "null"]
                         /\ builds' = [builds EXCEPT ![e] = 0]
                    ELSE /\ \E res \in FactoryResults :
                              estate' = [estate EXCEPT ![e] = res]
                         /\ builds' = [builds EXCEPT ![e] = 1]
                         /\ UNCHANGED <<creation_queue_, wstate>>
               /\ UNCHANGED replay_created
               /\ IF pipeline_state_storage_file_
                    THEN /\ pipeline_state_storage_file_flush_needed_' = TRUE
                         /\ storage_write_pipeline_state_queue_' =
                              Append(storage_write_pipeline_state_queue_, d)
                         /\ pipeline_state_enqueued' =
                              Append(pipeline_state_enqueued, d)
                         /\ storage_write_thread_' =
                              NotifyWriter(storage_write_thread_)
                    ELSE /\ storage_write_thread_' =
                              IF r.queued # <<>>
                                THEN NotifyWriter(storage_write_thread_)
                                ELSE storage_write_thread_
                         /\ UNCHANGED <<pipeline_state_storage_file_flush_needed_,
                                        storage_write_pipeline_state_queue_,
                                        pipeline_state_enqueued>>
               /\ UNCHANGED <<creation_threads_, creation_threads_busy_,
                              creation_completion_event_,
                              creation_completion_set_event_,
                              creation_threads_shutdown_from_, wentry>>
     /\ UNCHANGED <<shader_storage_file_, pipeline_state_storage_file_,
                    storage_write_flush_shaders_,
                    storage_write_flush_pipeline_states_,
                    storage_write_thread_shutdown_, flush_shaders,
                    flush_pipeline_states, shader_log, pipeline_log,
                    shader_log_opened, pipeline_log_opened>>

\* root_signature_ok: whether GetCurrentStateDescription resolved a root
\* signature (command_processor_->GetRootSignature) for the shader pair.
ConfigurePipeline(d, root_signature_ok) ==
  /\ pc = "idle"
  /\ shader_map_[d.vs] # "absent"
  /\ d.ps # 0 => shader_map_[d.ps] # "absent"
  /\ \/ ~root_signature_ok \/ IsCurrent(d) \/ FindPipelineState(d) # {}
     \/ CanCreate
  /\ calls < MaxCalls /\ calls' = calls + 1
  /\ op' = "ConfigurePipeline"
  /\ arg' = IF root_signature_ok THEN d ELSE NoDesc
  /\ IF ~root_signature_ok THEN ConfigureFail("nodesc")
     ELSE IF IsCurrent(d) THEN ConfigureHit(current_pipeline_state_, "current")
     ELSE IF FindPipelineState(d) # {}
       THEN ConfigureHit(CHOOSE e \in FindPipelineState(d) :
                           \A f \in FindPipelineState(d) : e <= f, "found")
     ELSE ConfigureMiss(d)
  /\ UNCHANGED <<pc, reinitialize_shader_storage, blocking,
                 pipeline_stored_descriptions, replay_next,
                 creation_thread_original_count,
                 logical_processor_count, d3d12_pipeline_creation_threads,
                 shaders_failed_to_translate, translationVars,
                 pipeline_state_storage_valid_bytes>>

(***************************************************************************)
(* PipelineCache::CreationThread                                           *)
(***************************************************************************)
\* A creation thread that never sets the event.
CompletionSignalDue_Never == FALSE
\* A test that forgets creation_threads_busy_.
CompletionSignalDue_Early == creation_completion_set_event_
\* The test guarding creation_completion_event_->Set().
CompletionSignalDue ==
  creation_completion_set_event_ /\ creation_threads_busy_ = 0

\* The locked block at the top of the loop: shut down, wait, or dequeue.
CreationThreadCheck(w) ==
  /\ pc # "crashed"
  /\ wstate[w] = "check"
  /\ IF w >= creation_threads_shutdown_from_ \/ creation_queue_ = <<>>
       THEN /\ IF CompletionSignalDue
                 THEN /\ creation_completion_set_event_' = FALSE
                      /\ creation_completion_event_' = TRUE
                 ELSE UNCHANGED <<creation_completion_set_event_,
                                  creation_completion_event_>>
            /\ wstate' = [wstate EXCEPT ![w] =
                 IF w >= creation_threads_shutdown_from_ THEN "exit" ELSE "wait"]
            /\ UNCHANGED <<creation_queue_, creation_threads_busy_, wentry>>
       ELSE /\ wentry' = [wentry EXCEPT ![w] = Head(creation_queue_)]
            /\ creation_queue_' = pop_front(creation_queue_)
            /\ creation_threads_busy_' = creation_threads_busy_ + 1
            /\ wstate' = [wstate EXCEPT ![w] = "create"]
            /\ UNCHANGED <<creation_completion_set_event_,
                           creation_completion_event_>>
  /\ UNCHANGED <<procVars, shaderVars, tableVars, storageVars,
                 creation_threads_, creation_threads_shutdown_from_>>

\* pipeline_state_to_create->state = CreateD3D12PipelineState(...)
CreationThreadCreate(w) ==
  /\ pc # "crashed"
  /\ wstate[w] = "create"
  /\ \E res \in FactoryResults :
       estate' = [estate EXCEPT ![wentry[w]] = res]
  /\ builds' = [builds EXCEPT ![wentry[w]] = @ + 1]
  /\ wstate' = [wstate EXCEPT ![w] = "created"]
  /\ UNCHANGED <<procVars, shaderVars, pipeline_states_, edesc,
                 current_pipeline_state_, replay_created, storageVars,
                 creation_threads_, creation_queue_, creation_threads_busy_,
                 creation_completion_event_, creation_completion_set_event_,
                 creation_threads_shutdown_from_, wentry>>

\* A thread that goes back to the top of the loop without decrementing
\* creation_threads_busy_.
CreationThreadDone_NoDecrement(w) ==
  /\ pc # "crashed"
  /\ wstate[w] = "created"
  /\ wstate' = [wstate EXCEPT ![w] = "check"]
  /\ wentry' = [wentry EXCEPT ![w] = NULL]
  /\ UNCHANGED <<procVars, shaderVars, tableVars, storageVars,
                 creation_threads_, creation_queue_, creation_threads_busy_,
                 creation_completion_event_, creation_completion_set_event_,
                 creation_threads_shutdown_from_>>
\* --creation_threads_busy_ under the lock, then back to the top of the loop.
CreationThreadDone(w) ==
  /\ pc # "crashed"
  /\ wstate[w] = "created"
  /\ creation_threads_busy_' = creation_threads_busy_ - 1
  /\ wstate' = [wstate EXCEPT ![w] = "check"]
  /\ wentry' = [wentry EXCEPT ![w] = NULL]
  /\ UNCHANGED <<procVars, shaderVars, tableVars, storageVars,
                 creation_threads_, creation_queue_,
                 creation_completion_event_, creation_completion_set_event_,
                 creation_threads_shutdown_from_>>

(***************************************************************************)
(* PipelineCache::CreateQueuedPipelineStatesOnProcessorThread              *)
(***************************************************************************)
\* Where the processor thread goes on when the queue is found empty.
AfterDrain == IF op = "EndSubmission" THEN "await" ELSE "replayed"

ProcessorCreate ==
  /\ pc = "drain"
  /\ creation_queue_ # <<>>
  /\ creation_queue_' = pop_front(creation_queue_)
  /\ \E res \in FactoryResults :
       estate' = [estate EXCEPT ![Head(creation_queue_)] = res]
  /\ builds' = [builds EXCEPT ![Head(creation_queue_)] = @ + 1]
  /\ UNCHANGED <<procVars, shaderVars, pipeline_states_, edesc,
                 current_pipeline_state_, replay_created, storageVars,
                 creation_threads_, creation_threads_busy_,
                 creation_completion_event_, creation_completion_set_event_,
                 creation_threads_shutdown_from_, wstate, wentry>>

ProcessorDrained ==
  /\ pc = "drain"
  /\ creation_queue_ = <<>>
  /\ pc' = AfterDrain
  /\ UNCHANGED <<op, calls, arg, out, path, reinitialize_shader_storage, blocking,
                 pipeline_stored_descriptions, replay_next,
                 creation_thread_original_count,
                 logical_processor_count, d3d12_pipeline_creation_threads,
                 shaders_failed_to_translate, translationVars,
                 pipeline_state_storage_valid_bytes, shaderVars,
                 tableVars, poolVars, storageVars>>

(***************************************************************************)
(* Waiting for creation_completion_event_                                  *)
(***************************************************************************)
\* A caller that never waits for the busy creation threads.
AwaitNeeded_Never == FALSE
\* await_creation_completion_event = creation_threads_busy_ != 0
AwaitNeeded == creation_threads_busy_ # 0

\* The locked block that arms the event, and the notify_one after it.
ArmCompletionEvent(await, then_wait, then_go) ==
  IF await
    THEN /\ creation_completion_event_' = FALSE
         /\ creation_completion_set_event_' = TRUE
         /\ \E n \in NotifyOneChoices : wstate' = Woken(wstate, n)
         /\ pc' = then_wait
    ELSE /\ pc' = then_go
         /\ UNCHANGED <<creation_completion_event_,
                        creation_completion_set_event_, wstate>>

\* Where xe::threading::Wait(creation_completion_event_) returns to.
AfterWait ==
  IF op = "EndSubmission" THEN "idle"
  ELSE IF op = "InitializeShaderStorage" THEN "start_writer"
  ELSE "destroy"

AwaitCompletionEvent ==
  /\ pc = "wait"
  /\ creation_completion_event_
  /\ pc' = AfterWait
  /\ UNCHANGED <<op, calls, arg, out, path, reinitialize_shader_storage, blocking,
                 pipeline_stored_descriptions, replay_next,
                 creation_thread_original_count,
                 logical_processor_count, d3d12_pipeline_creation_threads,
                 shaders_failed_to_translate, translationVars,
                 pipeline_state_storage_valid_bytes, shaderVars,
                 tableVars, poolVars, storageVars>>

(***************************************************************************)
(* PipelineCache::EndSubmission                                            *)
(***************************************************************************)
EndSubmission ==
  /\ pc = "idle"
  /\ calls < MaxCalls /\ calls' = calls + 1
  /\ op' = "EndSubmission" /\ arg' = NoDesc /\ out' = NULL /\ path' = "none"
  /\ IF shader_storage_file_flush_needed_ \/
        pipeline_state_storage_file_flush_needed_
       THEN /\ storage_write_flush_shaders_' =
                 (storage_write_flush_shaders_ \/
                  shader_storage_file_flush_needed_)
            /\ storage_write_flush_pipeline_states_' =
                 (storage_write_flush_pipeline_states_ \/
                  pipeline_state_storage_file_flush_needed_)
            /\ storage_write_thread_' = NotifyWriter(storage_write_thread_)
            /\ shader_storage_file_flush_needed_' = FALSE
            /\ pipeline_state_storage_file_flush_needed_' = FALSE
       ELSE UNCHANGED <<storage_write_flush_shaders_,
                        storage_write_flush_pipeline_states_,
                        storage_write_thread_,
                        shader_storage_file_flush_needed_,
                        pipeline_state_storage_file_flush_needed_>>
  /\ pc' = IF creation_threads_ # 0 THEN "drain" ELSE "idle"
  /\ UNCHANGED <<reinitialize_shader_storage, blocking,
                 pipeline_stored_descriptions, replay_next,
                 creation_thread_original_count,
                 logical_processor_count, d3d12_pipeline_creation_threads,
                 shaders_failed_to_translate, translationVars,
                 pipeline_state_storage_valid_bytes, shaderVars,
                 tableVars, poolVars, shader_storage_file_,
                 pipeline_state_storage_file_, storage_write_shader_queue_,
                 storage_write_pipeline_state_queue_,
                 storage_write_thread_shutdown_, flush_shaders,
                 flush_pipeline_states, shader_log, pipeline_log,
                 shader_enqueued, pipeline_state_enqueued,
                 shader_log_opened, pipeline_log_opened>>

\* An EndSubmission that returns as soon as the queue is empty.
EndSubmissionAwait_NoWait ==
  /\ pc = "await"
  /\ pc' = "idle"
  /\ UNCHANGED <<op, calls, arg, out, path, reinitialize_shader_storage, blocking,
                 pipeline_stored_descriptions, replay_next,
                 creation_thread_original_count,
                 logical_processor_count, d3d12_pipeline_creation_threads,
                 shaders_failed_to_translate, translationVars,
                 pipeline_state_storage_valid_bytes, shaderVars,
                 tableVars, poolVars, storageVars>>
\* The locked block after CreateQueuedPipelineStatesOnProcessorThread.
EndSubmissionAwait ==
  /\ pc = "await"
  /\ ArmCompletionEvent(AwaitNeeded, "wait", "idle")
  /\ UNCHANGED <<op, calls, arg, out, path, reinitialize_shader_storage, blocking,
                 pipeline_stored_descriptions, replay_next,
                 creation_thread_original_count,
                 logical_processor_count, d3d12_pipeline_creation_threads,
                 shaders_failed_to_translate, translationVars,
                 pipeline_state_storage_valid_bytes, shaderVars,
                 tableVars, storageVars, creation_threads_, creation_queue_,
                 creation_threads_busy_, creation_threads_shutdown_from_,
                 wentry>>

(***************************************************************************)
(* PipelineCache::ShutdownShaderStorage                                    *)
(***************************************************************************)
\* A shutdown that leaves the files open.
ShutdownShaderStorageEnd_KeepFiles ==
  /\ storage_write_shader_queue_' = <<>>
  /\ storage_write_pipeline_state_queue_' = <<>>
  /\ UNCHANGED <<pipeline_state_storage_file_,
                 pipeline_state_storage_file_flush_needed_,
                 shader_storage_file_, shader_storage_file_flush_needed_>>
\* From the write thread's exit to the end: the queues are cleared and the
\* files closed.
ShutdownShaderStorageEnd ==
  /\ storage_write_shader_queue_' = <<>>
  /\ storage_write_pipeline_state_queue_' = <<>>
  /\ pipeline_state_storage_file_' = FALSE
  /\ pipeline_state_storage_file_flush_needed_' =
       (pipeline_state_storage_file_flush_needed_ /\
        ~pipeline_state_storage_file_)
  /\ shader_storage_file_' = FALSE
  /\ shader_storage_file_flush_needed_' =
       (shader_storage_file_flush_needed_ /\ ~shader_storage_file_)

\* A shutdown that closes the two files before it waits for the write
\* thread.
ShutdownShaderStorageBegin_CloseFirst(then_go) ==
  IF storage_write_thread_ # "none"
    THEN /\ storage_write_thread_shutdown_' = TRUE
         /\ storage_write_thread_' = NotifyWriter(storage_write_thread_)
         /\ pc' = "join_writer"
         /\ pipeline_state_storage_file_' = FALSE
         /\ shader_storage_file_' = FALSE
         /\ UNCHANGED <<storage_write_shader_queue_,
                        storage_write_pipeline_state_queue_,
                        pipeline_state_storage_file_flush_needed_,
                        shader_storage_file_flush_needed_>>
    ELSE /\ pc' = then_go
         /\ ShutdownShaderStorageEnd
         /\ UNCHANGED <<storage_write_thread_shutdown_, storage_write_thread_>>

\* Up to the Wait on the write thread; all of it when there is no thread.
ShutdownShaderStorageBegin(then_go) ==
  IF storage_write_thread_ # "none"
    THEN /\ storage_write_thread_shutdown_' = TRUE
         /\ storage_write_thread_' = NotifyWriter(storage_write_thread_)
         /\ pc' = "join_writer"
         /\ UNCHANGED <<storage_write_shader_queue_,
                        storage_write_pipeline_state_queue_,
                        pipeline_state_storage_file_,
                        pipeline_state_storage_file_flush_needed_,
                        shader_storage_file_,
                        shader_storage_file_flush_needed_>>
    ELSE /\ pc' = then_go
         /\ ShutdownShaderStorageEnd
         /\ UNCHANGED <<storage_write_thread_shutdown_, storage_write_thread_>>

\* Where ShutdownShaderStorage returns to.
AfterShutdownShaderStorage ==
  IF op = "InitializeShaderStorage" THEN "open" ELSE "quiesce"

\* xe::threading::Wait(storage_write_thread_) has returned.
ShutdownShaderStorageJoin ==
  /\ pc = "join_writer"
  /\ storage_write_thread_ = "exited"
  /\ storage_write_thread_' = "none"
  /\ ShutdownShaderStorageEnd
  /\ pc' = AfterShutdownShaderStorage
  /\ UNCHANGED <<op, calls, arg, out, path, reinitialize_shader_storage, blocking,
                 pipeline_stored_descriptions, replay_next,
                 creation_thread_original_count,
                 logical_processor_count, d3d12_pipeline_creation_threads,
                 shaders_failed_to_translate, translationVars,
                 pipeline_state_storage_valid_bytes, shaderVars, tableVars,
                 poolVars, storage_write_flush_shaders_,
                 storage_write_flush_pipeline_states_,
                 storage_write_thread_shutdown_, flush_shaders,
                 flush_pipeline_states, shader_log, pipeline_log,
                 shader_enqueued, pipeline_state_enqueued,
                 shader_log_opened, pipeline_log_opened>>

(***************************************************************************)
(* PipelineCache::ClearCache and PipelineCache::Shutdown                   *)
(***************************************************************************)
\* The start of ClearCache(shutting_down), up to ShutdownShaderStorage.
ClearCacheBegin(shutting_down) ==
  /\ pc = "idle"
  /\ calls < MaxCalls /\ calls' = calls + 1
  /\ op' = IF shutting_down THEN "Shutdown" ELSE "ClearCache"
  /\ arg' = NoDesc /\ out' = NULL /\ path' = "none"
  /\ reinitialize_shader_storage' =
       (~shutting_down /\ storage_write_thread_ # "none")
  /\ ShutdownShaderStorageBegin("quiesce")
  /\ UNCHANGED <<blocking, pipeline_stored_descriptions, replay_next,
                 creation_thread_original_count,
                 logical_processor_count, d3d12_pipeline_creation_threads,
                 shaders_failed_to_translate, translationVars,
                 pipeline_state_storage_valid_bytes, shaderVars, tableVars,
                 poolVars, storage_write_flush_shaders_,
                 storage_write_flush_pipeline_states_, flush_shaders,
                 flush_pipeline_states, shader_log, pipeline_log,
                 shader_enqueued, pipeline_state_enqueued,
                 shader_log_opened, pipeline_log_opened>>

ClearCache == ClearCacheBegin(FALSE)

\* Shutdown starts with ClearCache(true).
Shutdown == ClearCacheBegin(TRUE)

\* A ClearCache that keeps its reference to the current pipeline state.
ClearedCurrentPipelineState_Kept == current_pipeline_state_
\* "Remove references to the current pipeline state object."
ClearedCurrentPipelineState == NULL
\* A ClearCache that leaves the queued entries in the creation queue.
ClearedCreationQueue_Kept == creation_queue_
\* creation_queue_.clear()
ClearedCreationQueue == <<>>

\* current_pipeline_state_ = nullptr, then the creation queue is emptied and
\* the event armed if a thread is busy.
ClearCacheQuiesce ==
  /\ pc = "quiesce"
  /\ current_pipeline_state_' = ClearedCurrentPipelineState
  /\ IF creation_threads_ # 0
       THEN /\ creation_queue_' = ClearedCreationQueue
            /\ ArmCompletionEvent(AwaitNeeded, "wait", "destroy")
       ELSE /\ pc' = "destroy"
            /\ UNCHANGED <<creation_queue_, creation_completion_event_,
                           creation_completion_set_event_, wstate>>
  /\ UNCHANGED <<op, calls, arg, out, path, reinitialize_shader_storage, blocking,
                 pipeline_stored_descriptions, replay_next,
                 creation_thread_original_count,
                 logical_processor_count, d3d12_pipeline_creation_threads,
                 shaders_failed_to_translate, translationVars,
                 pipeline_state_storage_valid_bytes, shaderVars,
                 pipeline_states_, edesc, estate, builds, replay_created,
                 creation_threads_, creation_threads_busy_,
                 creation_threads_shutdown_from_, wentry, storageVars>>

\* it.second->state->Release() is called for every entry, also for one whose
\* state is nullptr: a virtual call through a null pointer.
ReleaseCrashes == \E e \in pipeline_states_ : estate[e] = "null"
\* What that call can do: it is undefined behaviour, which ends the process
\* at the read of the vtable or lets the loop go on.
ReleaseOutcomes == IF ReleaseCrashes THEN {"crash", "return"} ELSE {"return"}

\* Where the processor thread goes when the maps have been cleared.
AfterDestroy ==
  IF reinitialize_shader_storage THEN "open"
  ELSE IF op = "Shutdown"
    THEN (IF creation_threads_ # 0 THEN "join_threads" ELSE "down")
  ELSE "idle"

\* "Destroy all pipeline state objects", "Destroy all shaders", and the start
\* of what follows: InitializeShaderStorage(root, title, false), or in
\* Shutdown the request to all creation threads to shut down.
ClearCacheDestroy ==
  /\ pc = "destroy"
  /\ \E release \in ReleaseOutcomes :
     IF release = "crash"
       THEN /\ pc' = "crashed"
            /\ UNCHANGED <<blocking, shaderVars, tableVars, poolVars>>
       ELSE /\ pipeline_states_' = {}
            /\ edesc' = [e \in Entries |-> NoDesc]
            /\ estate' = [e \in Entries |-> "unallocated"]
            /\ replay_created' = {}
            /\ builds' = [e \in Entries |-> 0]
            /\ shader_map_' = [s \in Shaders |-> "absent"]
            /\ shader_ucode' = [s \in Shaders |-> <<>>]
            /\ translations' = [s \in Shaders |-> 0]
            /\ pc' = AfterDestroy
            /\ blocking' = FALSE
            /\ IF AfterDestroy = "join_threads"
                 THEN /\ creation_threads_shutdown_from_' = 0
                      /\ wstate' = NotifyAll(wstate)
                 ELSE UNCHANGED <<creation_threads_shutdown_from_, wstate>>
            /\ UNCHANGED <<current_pipeline_state_, creation_threads_,
                           creation_queue_, creation_threads_busy_,
                           creation_completion_event_,
                           creation_completion_set_event_, wentry>>
  /\ UNCHANGED <<op, calls, arg, out, path, reinitialize_shader_storage,
                 pipeline_stored_descriptions, replay_next,
                 creation_thread_original_count,
                 logical_processor_count, d3d12_pipeline_creation_threads,
                 shaders_failed_to_translate, translationVars,
                 pipeline_state_storage_valid_bytes, storageVars>>

\* The Wait on each creation thread at or above the shutdown index, and
\* what follows it: in Shutdown creation_threads_.clear(); in
\* InitializeShaderStorage the reset of the shutdown index and the blocking
\* wait.
JoinCreationThreads ==
  /\ pc = "join_threads"
  /\ \A w \in Threads :
       (creation_threads_shutdown_from_ <= w /\ w < creation_threads_)
         => wstate[w] = "exit"
  /\ creation_threads_' = Min(creation_threads_, creation_threads_shutdown_from_)
  /\ IF op = "Shutdown"
       THEN /\ pc' = "down"
            /\ wstate' = [w \in Threads |->
                            IF w >= creation_threads_shutdown_from_
                              THEN "none" ELSE wstate[w]]
            /\ UNCHANGED <<creation_threads_shutdown_from_,
                           creation_completion_event_,
                           creation_completion_set_event_>>
       ELSE /\ creation_threads_shutdown_from_' = SIZE_MAX
            /\ IF blocking /\ AwaitNeeded
                 THEN /\ creation_completion_event_' = FALSE
                      /\ creation_completion_set_event_' = TRUE
                      /\ \E n \in NotifyOneChoices :
                           wstate' = [w \in Threads |->
                             IF w >= creation_threads_shutdown_from_ THEN "none"
                             ELSE Woken(wstate, n)[w]]
                      /\ pc' = "wait"
                 ELSE /\ pc' = "start_writer"
                      /\ wstate' = [w \in Threads |->
                            IF w >= creation_threads_shutdown_from_
                              THEN "none" ELSE wstate[w]]
                      /\ UNCHANGED <<creation_completion_event_,
                                     creation_completion_set_event_>>
  /\ UNCHANGED <<op, calls, arg, out, path, reinitialize_shader_storage, blocking,
                 pipeline_stored_descriptions, replay_next,
                 creation_thread_original_count,
                 logical_processor_count, d3d12_pipeline_creation_threads,
                 shaders_failed_to_translate, translationVars,
                 pipeline_state_storage_valid_bytes, shaderVars, tableVars,
                 creation_queue_, creation_threads_busy_, wentry, storageVars>>

(***************************************************************************)
(* PipelineCache::InitializeShaderStorage                                  *)
(***************************************************************************)
InitializeShaderStorage(is_blocking) ==
  /\ pc = "idle"
  /\ calls < MaxCalls /\ calls' = calls + 1
  /\ op' = "InitializeShaderStorage"
  /\ arg' = NoDesc /\ out' = NULL /\ path' = "none"
  /\ blocking' = is_blocking
  /\ reinitialize_shader_storage' = FALSE
  /\ ShutdownShaderStorageBegin("open")
  /\ UNCHANGED <<pipeline_stored_descriptions, replay_next,
                 creation_thread_original_count,
                 logical_processor_count, d3d12_pipeline_creation_threads,
                 shaders_failed_to_translate, translationVars,
                 pipeline_state_storage_valid_bytes, shaderVars, tableVars,
                 poolVars, storage_write_flush_shaders_,
                 storage_write_flush_pipeline_states_, flush_shaders,
                 flush_pipeline_states, shader_log, pipeline_log,
                 shader_enqueued, pipeline_state_enqueued,
                 shader_log_opened, pipeline_log_opened>>

\* Outcomes of CreateFolder and the two OpenFile calls.
OpenResults == {"ok", "no_shader_file", "no_pipeline_file"}

SeqRange(q) == {q[i] : i \in 1..Len(q)}

\* The shaders the loop over the records of a file with a valid header
\* inserted; none when the header is not valid.
ReplayedShaders ==
  IF HeaderValid(shader_log)
    THEN SeqRange(ShaderStorageLoop(shader_log, FileHeaderSize, shader_map_,
                                    shader_ucode, FileHeaderSize,
                                    <<>>).shaders_to_translate)
    ELSE {}
\* The microcode the loop gave to the shaders it inserted.
ReplayedUcode ==
  IF HeaderValid(shader_log)
    THEN ShaderStorageLoop(shader_log, FileHeaderSize, shader_map_,
                           shader_ucode, FileHeaderSize, <<>>).ucode
    ELSE shader_ucode
\* The file as InitializeShaderStorage leaves it: truncated to
\* shader_storage_valid_bytes, or emptied and given a header.
ReplayedShaderFile ==
  IF HeaderValid(shader_log)
    THEN TruncateStdioFile(
           shader_log,
           ShaderStorageLoop(shader_log, FileHeaderSize, shader_map_,
                             shader_ucode, FileHeaderSize,
                             <<>>).shader_storage_valid_bytes)
    ELSE ShaderFileHeader
\* A list of failed shaders that holds every shader the load inserted.
ShadersFailedToTranslate_All == ReplayedShaders
\* shaders_failed_to_translate when the translation threads have been
\* joined: the inserted shaders whose translation failed.  There are
\* min(.., logical_processor_count - 1) translation threads, so with one
\* processor there is none and nothing is translated.
ShadersFailedToTranslate ==
  {s \in ReplayedShaders :
     /\ LogicalProcessorCount(logical_processor_count) - 1 >= 1
     /\ ~TranslateShader(shader_map_, s)}
\* A load that keeps the shaders that failed to translate.
ReplayShader_KeepFailed(s) ==
  IF LogicalProcessorCount(logical_processor_count) - 1 < 1
    THEN "Untranslated"
  ELSE Translate(shader_map_, s)[s]
\* An inserted shader after the translation threads have been joined and
\* the shaders of shaders_failed_to_translate erased.
ReplayShader(s) ==
  IF LogicalProcessorCount(logical_processor_count) - 1 < 1
    THEN "Untranslated"
  ELSE IF s \in ShadersFailedToTranslate THEN "absent"
  ELSE "Translated"

\* creation_thread_needed_count
CreationThreadNeededCount(stored_count, original_count) ==
  Max(Min(stored_count, LogicalProcessorCount(logical_processor_count)) - 1,
      original_count)
\* The loop `while (creation_threads_.size() < creation_thread_original_count)`
\* that launches the additional threads: the size it ends with.
GrownThreadCount(size, original_count, needed_count) ==
  IF size < original_count THEN original_count ELSE size

\* From CreateFolder to the read of the stored pipeline descriptions.
InitializeShaderStorageOpen(io) ==
  /\ pc = "open"
  /\ IF io = "no_shader_file"
       THEN /\ pc' = "idle"
            /\ shaders_failed_to_translate' = {}
            /\ UNCHANGED <<shaderVars, shader_storage_file_,
                           pipeline_state_storage_file_,
                           shader_storage_file_flush_needed_,
                           pipeline_state_storage_file_flush_needed_,
                           pipeline_stored_descriptions, replay_next,
                           creation_thread_original_count,
                           pipeline_state_storage_valid_bytes,
                           creation_threads_, wstate, shader_log,
                           shader_enqueued, pipeline_state_enqueued,
                           shader_log_opened, pipeline_log_opened>>
       ELSE /\ shader_log' = ReplayedShaderFile
            /\ shaders_failed_to_translate' = ShadersFailedToTranslate
            /\ shader_log_opened' = Len(shader_log')
            /\ pipeline_log_opened' = Len(pipeline_log)
            /\ shader_enqueued' = <<>>
            /\ pipeline_state_enqueued' = <<>>
            /\ shader_map_' = [s \in Shaders |->
                 IF s \in ReplayedShaders THEN ReplayShader(s)
                 ELSE shader_map_[s]]
            /\ shader_ucode' = [s \in Shaders |->
                 IF shader_map_'[s] = "absent" THEN <<>>
                 ELSE ReplayedUcode[s]]
            /\ translations' = [s \in Shaders |->
                 IF s \in ReplayedShaders /\
                    LogicalProcessorCount(logical_processor_count) - 1 >= 1
                   THEN translations[s] + 1 ELSE translations[s]]
            /\ shader_storage_file_flush_needed_' = FALSE
            /\ IF io = "no_pipeline_file"
                 THEN /\ pc' = "idle"
                      /\ shader_storage_file_' = FALSE
                      /\ UNCHANGED <<pipeline_state_storage_file_,
                                     pipeline_state_storage_file_flush_needed_,
                                     pipeline_stored_descriptions, replay_next,
                                     creation_thread_original_count,
                                     pipeline_state_storage_valid_bytes,
                                     creation_threads_, wstate>>
                 ELSE /\ shader_storage_file_' = TRUE
                      /\ pipeline_state_storage_file_' = TRUE
                      /\ pipeline_state_storage_file_flush_needed_' = FALSE
                      /\ pipeline_stored_descriptions' =
                           IF PipelineHeaderValid(pipeline_log)
                             THEN ReadStoredDescriptions(pipeline_log)
                             ELSE <<>>
                      /\ pipeline_state_storage_valid_bytes' =
                           PipelineFileHeaderSize
                      /\ replay_next' = 1
                      /\ IF pipeline_stored_descriptions' # <<>>
                           THEN /\ pc' = "replay"
                                /\ creation_thread_original_count' =
                                     creation_threads_
                                /\ creation_threads_' = GrownThreadCount(
                                     creation_threads_, creation_threads_,
                                     CreationThreadNeededCount(
                                       Len(pipeline_stored_descriptions'),
                                       creation_threads_))
                                /\ wstate' = [w \in Threads |->
                                     IF w >= creation_threads_ /\
                                        w < creation_threads_'
                                       THEN "check" ELSE wstate[w]]
                           ELSE /\ pc' = "start_writer"
                                /\ UNCHANGED <<creation_thread_original_count,
                                               creation_threads_, wstate>>
  /\ replay_created' = {}
  /\ UNCHANGED <<op, calls, arg, out, path, reinitialize_shader_storage, blocking,
                 translationVars, pipeline_states_, edesc, estate, current_pipeline_state_,
                 builds, creation_queue_, creation_threads_busy_,
                 creation_completion_event_, creation_completion_set_event_,
                 creation_threads_shutdown_from_, wentry,
                 storage_write_thread_, storage_write_shader_queue_,
                 storage_write_pipeline_state_queue_,
                 storage_write_flush_shaders_,
                 storage_write_flush_pipeline_states_,
                 storage_write_thread_shutdown_, flush_shaders,
                 flush_pipeline_states, pipeline_log,
                 logical_processor_count, d3d12_pipeline_creation_threads>>

\* A loop that trusts every stored description.
StoredDescriptionValid_Unchecked(r) == TRUE
\* The integrity test of a stored description.
StoredDescriptionValid(r) == DescHash(r.description) = r.description_hash
\* shader_map_.find(hash) != shader_map_.end()
InShaderMap(hash) == hash \in Shaders /\ shader_map_[hash] # "absent"
\* Whether the loop body reaches `new PipelineState` for a stored description.
ReplayCreates(d, root_signature_ok) ==
  /\ FindPipelineState(d) = {}
  /\ InShaderMap(d.vs)
  /\ is_valid(shader_map_[d.vs])
  /\ d.ps # 0 => (InShaderMap(d.ps) /\ is_valid(shader_map_[d.ps]))
  /\ root_signature_ok

\* The loop body for a description that passed the integrity test.
ReplayStoredDescription(d, root_signature_ok) ==
  LET e == NewPipelineState
  IN IF ReplayCreates(d, root_signature_ok)
       THEN /\ Cardinality(pipeline_states_) < MaxEntries
            /\ pipeline_states_' = pipeline_states_ \cup {e}
            /\ edesc' = [edesc EXCEPT ![e] = d]
            /\ replay_created' = replay_created \cup {e}
            /\ IF creation_threads_not_empty
                 THEN /\ creation_queue_' = push_back(creation_queue_, e)
                      /\ builds' = [builds EXCEPT ![e] = 0]
                      /\ estate' = [estate EXCEPT ![e] = "null"]
                      /\ \E n \in NotifyOneChoices : wstate' = Woken(wstate, n)
                 ELSE /\ \E res \in FactoryResults :
                           estate' = [estate EXCEPT ![e] = res]
                      /\ builds' = [builds EXCEPT ![e] = 1]
                      /\ UNCHANGED <<creation_queue_, wstate>>
       ELSE UNCHANGED <<pipeline_states_, edesc, estate, builds,
                        replay_created, creation_queue_, wstate>>

\* One iteration of the loop over pipeline_stored_descriptions: the break at
\* a description that fails the integrity test, or the count of its bytes
\* and the loop body.
ReplayPipelineState(root_signature_ok) ==
  /\ pc = "replay"
  /\ IF ~StoredDescriptionValid(pipeline_stored_descriptions[replay_next])
       THEN /\ pc' = "drain"
            /\ UNCHANGED <<pipeline_states_, edesc, estate, builds,
                           replay_created, creation_queue_, wstate,
                           replay_next, pipeline_state_storage_valid_bytes>>
       ELSE /\ pipeline_state_storage_valid_bytes' =
                 pipeline_state_storage_valid_bytes
                 + PipelineStoredDescriptionSize
            /\ replay_next' = replay_next + 1
            /\ pc' = IF replay_next = Len(pipeline_stored_descriptions)
                       THEN "drain" ELSE "replay"
            /\ ReplayStoredDescription(
                 pipeline_stored_descriptions[replay_next].description,
                 root_signature_ok)
  /\ UNCHANGED <<op, calls, arg, out, path, reinitialize_shader_storage, blocking,
                 pipeline_stored_descriptions, creation_thread_original_count,
                 logical_processor_count, d3d12_pipeline_creation_threads,
                 shaders_failed_to_translate, translationVars,
                 shaderVars, current_pipeline_state_, creation_threads_,
                 creation_threads_busy_, creation_completion_event_,
                 creation_completion_set_event_,
                 creation_threads_shutdown_from_, wentry, storageVars>>

\* After CreateQueuedPipelineStatesOnProcessorThread: the additional threads,
\* if any were launched, are told to shut down.
InitializeShaderStorageReplayed ==
  /\ pc = "replayed"
  /\ IF creation_threads_ > creation_thread_original_count
       THEN /\ creation_threads_shutdown_from_' = creation_thread_original_count
            /\ wstate' = NotifyAll(wstate)
            /\ pc' = "join_threads"
       ELSE /\ pc' = "start_writer"
            /\ UNCHANGED <<creation_threads_shutdown_from_, wstate>>
  /\ UNCHANGED <<op, calls, arg, out, path, reinitialize_shader_storage, blocking,
                 pipeline_stored_descriptions, replay_next,
                 creation_thread_original_count,
                 logical_processor_count, d3d12_pipeline_creation_threads,
                 shaders_failed_to_translate, translationVars,
                 pipeline_state_storage_valid_bytes, shaderVars, tableVars,
                 creation_threads_, creation_queue_, creation_threads_busy_,
                 creation_completion_event_, creation_completion_set_event_,
                 wentry, storageVars>>

\* The pipeline state storage file as InitializeShaderStorage leaves it:
\* truncated to pipeline_state_storage_valid_bytes, or emptied and given a
\* header.
ReplayedPipelineFile ==
  IF PipelineHeaderValid(pipeline_log)
    THEN TruncateStdioFile(pipeline_log, pipeline_state_storage_valid_bytes)
    ELSE PipelineFileHeader

\* The end of InitializeShaderStorage: the pipeline state storage file is
\* truncated or given its header, the storage writing thread is started, and
\* the call returns.
InitializeShaderStorageStartThread ==
  /\ pc = "start_writer"
  /\ pipeline_log' = ReplayedPipelineFile
  /\ pipeline_log_opened' = Len(pipeline_log')
  /\ storage_write_flush_shaders_' = FALSE
  /\ storage_write_flush_pipeline_states_' = FALSE
  /\ storage_write_thread_shutdown_' = FALSE
  /\ storage_write_thread_' = "run"
  /\ flush_shaders' = FALSE
  /\ flush_pipeline_states' = FALSE
  /\ pc' = "idle"
  /\ UNCHANGED <<op, calls, arg, out, path, reinitialize_shader_storage, blocking,
                 pipeline_stored_descriptions, replay_next,
                 creation_thread_original_count,
                 logical_processor_count, d3d12_pipeline_creation_threads,
                 shaders_failed_to_translate, translationVars,
                 pipeline_state_storage_valid_bytes, shaderVars, tableVars,
                 poolVars, shader_storage_file_, pipeline_state_storage_file_,
                 storage_write_shader_queue_,
                 storage_write_pipeline_state_queue_,
                 shader_storage_file_flush_needed_,
                 pipeline_state_storage_file_flush_needed_, shader_log,
                 shader_enqueued, pipeline_state_enqueued, shader_log_opened>>

(***************************************************************************)
(* PipelineCache::StorageWriteThread                                       *)
(***************************************************************************)
\* A thread that takes a requested flush whether or not its queue is empty.
TakeFlush_Always(dequeued, flush_requested) == flush_requested
\* `else if (storage_write_flush_..._)`: a requested flush is taken, and the
\* flag reset, only in a pass that found the queue of the file empty.
TakeFlush(dequeued, flush_requested) == ~dequeued /\ flush_requested

\* One iteration of the loop: the pending fflush calls, the locked block, and
\* the fwrite of what was dequeued.
StorageWriteThread ==
  /\ pc # "crashed"
  /\ storage_write_thread_ = "run"
  /\ IF storage_write_thread_shutdown_
       THEN /\ storage_write_thread_' = "exited"
            /\ flush_shaders' = FALSE
            /\ flush_pipeline_states' = FALSE
            /\ UNCHANGED <<storage_write_shader_queue_,
                           storage_write_pipeline_state_queue_,
                           storage_write_flush_shaders_,
                           storage_write_flush_pipeline_states_, shader_log,
                           pipeline_log>>
       ELSE LET write_shader == storage_write_shader_queue_ # <<>>
                write_pipeline_state ==
                  storage_write_pipeline_state_queue_ # <<>>
            IN /\ storage_write_shader_queue_' =
                    IF write_shader THEN Tail(storage_write_shader_queue_)
                    ELSE storage_write_shader_queue_
               /\ shader_log' =
                    IF write_shader
                      THEN shader_log \o
                           ShaderStoredRecord(
                             Head(storage_write_shader_queue_),
                             shader_ucode[Head(storage_write_shader_queue_)])
                      ELSE shader_log
               /\ flush_shaders' =
                    TakeFlush(write_shader, storage_write_flush_shaders_)
               /\ storage_write_flush_shaders_' =
                    (storage_write_flush_shaders_ /\
                     ~TakeFlush(write_shader, storage_write_flush_shaders_))
               /\ storage_write_pipeline_state_queue_' =
                    IF write_pipeline_state
                      THEN Tail(storage_write_pipeline_state_queue_)
                      ELSE storage_write_pipeline_state_queue_
               /\ pipeline_log' =
                    IF write_pipeline_state
                      THEN pipeline_log \o PipelineStoredDescription(
                             Head(storage_write_pipeline_state_queue_))
                      ELSE pipeline_log
               /\ flush_pipeline_states' =
                    TakeFlush(write_pipeline_state,
                              storage_write_flush_pipeline_states_)
               /\ storage_write_flush_pipeline_states_' =
                    (storage_write_flush_pipeline_states_ /\
                     ~TakeFlush(write_pipeline_state,
                                storage_write_flush_pipeline_states_))
               /\ storage_write_thread_' =
                    IF ~write_shader /\ ~write_pipeline_state
                      THEN "wait" ELSE "run"
  /\ UNCHANGED <<procVars, shaderVars, tableVars, poolVars,
                 shader_storage_file_, pipeline_state_storage_file_,
                 shader_storage_file_flush_needed_,
                 pipeline_state_storage_file_flush_needed_,
                 storage_write_thread_shutdown_, shader_enqueued,
                 pipeline_state_enqueued, shader_log_opened,
                 pipeline_log_opened>>

(***************************************************************************)
(* The specifications.                                                     *)
(*                                                                         *)
(* Spec: the cache without a shader storage (InitializeShaderStorage is    *)
(* never called): shader map, pipeline state table and creation threads,   *)
(* with or without creation threads.                                       *)
(*                                                                         *)
(* SpecStorage: the cache with its shader storage and creation threads;    *)
(* the draws use the shaders that translate and one blend state.           *)
(***************************************************************************)
CreationThreads ==
  \E w \in Threads :
    \/ CreationThreadCheck(w)
    \/ CreationThreadCreate(w)
    \/ CreationThreadDone(w)

Init == InitWith({0, MaxThreads}, {NoFiles})

Next ==
  \/ \E s \in Shaders : LoadShader(GuestUcode(s))
  \/ \E d \in Descriptions, ok \in BOOLEAN : ConfigurePipeline(d, ok)
  \/ EndSubmission
  \/ EndSubmissionAwait
  \/ ProcessorCreate
  \/ ProcessorDrained
  \/ AwaitCompletionEvent
  \/ ClearCache
  \/ Shutdown
  \/ ClearCacheQuiesce
  \/ ClearCacheDestroy
  \/ JoinCreationThreads
  \/ CreationThreads

Spec == Init /\ [][Next]_vars

\* The same cache with threads that are scheduled fairly and factory calls
\* that return: every creation thread step that stays possible is taken, and
\* a Wait whose event is set returns.
Fairness ==
  /\ \A w \in Threads :
       /\ WF_vars(CreationThreadCheck(w))
       /\ WF_vars(CreationThreadCreate(w))
       /\ WF_vars(CreationThreadDone(w))
  /\ WF_vars(AwaitCompletionEvent)

FairSpec == Init /\ [][Next]_vars /\ Fairness

StorageShaders == {s \in Shaders : TranslatorValid(s)}
StorageDescriptions ==
  {d \in Descriptions : d.vs \in StorageShaders /\ d.rt = 0}

InitStorage == InitWith({MaxThreads}, StoredFiles)

NextStorage ==
  \/ \E s \in StorageShaders : LoadShader(GuestUcode(s))
  \/ \E d \in StorageDescriptions : ConfigurePipeline(d, TRUE)
  \/ EndSubmission
  \/ EndSubmissionAwait
  \/ ProcessorCreate
  \/ ProcessorDrained
  \/ AwaitCompletionEvent
  \/ ClearCache
  \/ Shutdown
  \/ ClearCacheQuiesce
  \/ ClearCacheDestroy
  \/ JoinCreationThreads
  \/ \E b \in BOOLEAN : InitializeShaderStorage(b)
  \/ ShutdownShaderStorageJoin
  \/ \E io \in OpenResults : InitializeShaderStorageOpen(io)
  \/ \E ok \in BOOLEAN : ReplayPipelineState(ok)
  \/ InitializeShaderStorageReplayed
  \/ InitializeShaderStorageStartThread
  \/ CreationThreads
  \/ StorageWriteThread

SpecStorage == InitStorage /\ [][NextStorage]_vars

(***************************************************************************)
(* Properties.                                                             *)
(***************************************************************************)
\* A ConfigurePipeline call taken in this step.
ConfigureStep == calls' = calls + 1 /\ op' = "ConfigurePipeline"
\* How many times an entry is in the creation queue, and the creation
\* threads that hold it between the dequeue and the decrement of
\* creation_threads_busy_.
QueueCount(e) ==
  Cardinality({i \in 1..Len(creation_queue_) : creation_queue_[i] = e})
Holders(e) ==
  {w \in Threads : wstate[w] \in {"create", "created"} /\ wentry[w] = e}

\* C1 (Deduplication): the pipeline state table never holds two entries with
\* equal descriptions, whatever ConfigurePipeline calls and pipeline storage
\* replays happened; and a ConfigurePipeline call whose description is that of
\* an entry already in the table returns that entry and leaves the table, the
\* creation queue and both storage write queues as they were.
NoEqualDescriptions ==
  \A e, f \in pipeline_states_ : edesc[e] = edesc[f] => e = f
ConfigureKnown ==
  ConfigureStep /\ \E e \in pipeline_states_ : edesc[e] = arg'
C1_Deduplication ==
  /\ []NoEqualDescriptions
  /\ [][ConfigureKnown =>
          /\ out' \in pipeline_states_ /\ edesc[out'] = arg'
          /\ pipeline_states_' = pipeline_states_
          /\ creation_queue_' = creation_queue_
          /\ storage_write_pipeline_state_queue_' =
               storage_write_pipeline_state_queue_
          /\ storage_write_shader_queue_' = storage_write_shader_queue_]_vars
\* A call answered from the hash lookup, and a replay that met a description
\* already in the table.
C1_Witness ==
  /\ op = "ConfigurePipeline" /\ path = "found"
  /\ out \in pipeline_states_ /\ edesc[out] = arg
  /\ Cardinality(pipeline_states_) = 2

\* C2 (At-most-one-build): a description that was submitted has exactly one
\* entry, and that entry is either waiting for its one build (once in the
\* creation queue, or in the hands of one creation thread) or has been built
\* once; without creation threads it was built once by the call itself and
\* the queue stays empty.  ClearCache and Shutdown empty the queue on their
\* way to destroying the entries, so there the count can be zero.
Clearing == op \in {"ClearCache", "Shutdown"} /\ pc \in {"wait", "destroy", "crashed"}
BuildCount(e) ==
  QueueCount(e)
  + Cardinality({w \in Threads : wstate[w] = "create" /\ wentry[w] = e})
  + builds[e]
C2_AtMostOneBuild ==
  /\ \A e, f \in pipeline_states_ : edesc[e] = edesc[f] => e = f
  /\ \A e \in pipeline_states_ :
       IF creation_threads_ = 0
         THEN builds[e] = 1 /\ creation_queue_ = <<>>
         ELSE BuildCount(e) <= 1 /\ (~Clearing => BuildCount(e) = 1)
\* The same description submitted again while its build is still queued.
C2_Witness ==
  /\ op = "ConfigurePipeline" /\ path \in {"current", "found"}
  /\ out \in pipeline_states_ /\ QueueCount(out) = 1

\* C3: for every entry the factory is invoked at most once, by one thread: an
\* entry is never held by two creation threads, never held by a creation
\* thread while it is still in the queue, and never in the queue or held once
\* it has been built and released.
C3_FactoryOncePerEntry ==
  \A e \in Entries :
    /\ builds[e] <= 1
    /\ Cardinality(Holders(e)) <= 1
    /\ QueueCount(e) + Cardinality(Holders(e)) <= 1
    /\ QueueCount(e) = 1 => builds[e] = 0
    /\ \A w \in Holders(e) : builds[e] = IF wstate[w] = "create" THEN 0 ELSE 1
\* One entry built by a creation thread and another by the processor thread
\* in EndSubmission.
C3_Witness ==
  /\ op = "EndSubmission" /\ pc = "drain"
  /\ \E e, f \in pipeline_states_ :
       /\ e # f /\ builds[e] = 1 /\ builds[f] = 1
       /\ Holders(e) # {} /\ Holders(f) = {}

\* ClearCache(shutting_down) has returned: to the caller, or into the rest of
\* Shutdown.
ClearCacheReturned ==
  \/ op = "ClearCache" /\ pc = "idle"
  \/ op = "Shutdown" /\ pc \in {"join_threads", "down"}
ContentStoreEmpty == \A s \in Shaders : shader_map_[s] = "absent"

\* C4, as stated: after every ClearCache call returns, whatever
\* shutting_down is and whether or not the shader storage is in use, the
\* creation queue is empty, no creation thread is busy, and the pipeline
\* state table and the shader map are both empty.
C4_Original ==
  ClearCacheReturned =>
    /\ creation_queue_ = <<>> /\ creation_threads_busy_ = 0
    /\ pipeline_states_ = {} /\ ContentStoreEmpty
\* C4, amended: after every ClearCache call returns the creation queue is
\* empty; when the call did not re-initialize the shader storage
\* (shutting_down, or no storage write thread running at the call), no
\* creation thread is busy and the pipeline state table and the shader map are
\* both empty.
C4_ClearCacheReturn ==
  ClearCacheReturned =>
    /\ creation_queue_ = <<>>
    /\ ~reinitialize_shader_storage =>
         /\ creation_threads_busy_ = 0
         /\ pipeline_states_ = {} /\ ContentStoreEmpty
\* ClearCache(false) has returned after re-initializing the shader storage:
\* the queue is empty, and the table holds an entry replayed from the file.
C4_Witness ==
  /\ op = "ClearCache" /\ pc = "idle"
  /\ reinitialize_shader_storage
  /\ creation_queue_ = <<>> /\ pipeline_states_ # {}

\* C5 (no use-after-free on clear): an entry that is in the creation queue, or
\* that a creation thread has dequeued and is building, is in the pipeline
\* state table (it has not been deleted), and so are its shaders in the shader
\* map; a shader queued for the storage write thread is in the shader map; and
\* when ClearCache reaches the deletion of the entries and shaders the queue
\* is empty, no creation thread is building and the storage write thread has
\* been joined.
C5_NoUseAfterFree ==
  /\ \A i \in 1..Len(creation_queue_) : creation_queue_[i] \in pipeline_states_
  /\ \A w \in Threads :
       wstate[w] = "create" =>
         /\ wentry[w] \in pipeline_states_
         /\ shader_map_[edesc[wentry[w]].vs] # "absent"
         /\ edesc[wentry[w]].ps # 0 => shader_map_[edesc[wentry[w]].ps] # "absent"
  /\ \A i \in 1..Len(storage_write_shader_queue_) :
       shader_map_[storage_write_shader_queue_[i]] # "absent"
  /\ pc = "destroy" =>
       /\ creation_queue_ = <<>>
       /\ \A w \in Threads : wstate[w] # "create"
       /\ storage_write_thread_ = "none"
\* ClearCache, called with the storage in use, waiting for the completion
\* event while a creation thread is building an entry.
C5_Witness ==
  /\ op = "ClearCache" /\ pc = "wait" /\ reinitialize_shader_storage
  /\ \E w \in Threads : wstate[w] = "create"

\* C6: when EndSubmission returns in a cache with creation threads, the
\* creation queue is empty, creation_threads_busy_ is 0, and every entry of the
\* table has had its one factory call made and its state written, no thread
\* still holding it.
C6_EndSubmissionReturn ==
  (op = "EndSubmission" /\ pc = "idle" /\ creation_threads_ # 0) =>
    /\ creation_queue_ = <<>>
    /\ creation_threads_busy_ = 0
    /\ \A e \in pipeline_states_ :
         builds[e] = 1 /\ estate[e] \in FactoryResults /\ Holders(e) = {}
\* EndSubmission returned with two entries built.
C6_Witness ==
  /\ op = "EndSubmission" /\ pc = "idle" /\ creation_threads_ # 0
  /\ Cardinality(pipeline_states_) = 2
  /\ \A e \in pipeline_states_ : builds[e] = 1

\* C7 (quiescence liveness): whenever ClearCache or EndSubmission has armed
\* the completion event and waits on it, the event is eventually set, under
\* fair scheduling of the creation threads; and the event is set only by a
\* step taken when no creation thread is busy.
C7_QuiescenceLiveness ==
  /\ (pc = "wait") ~> creation_completion_event_
  /\ [][(~creation_completion_event_ /\ creation_completion_event_')
         => (creation_threads_busy_ = 0 /\ creation_threads_busy_' = 0)]_vars
\* The event armed by EndSubmission has been set by a creation thread, and
\* the Wait has not returned yet.
C7_Witness ==
  /\ op = "EndSubmission" /\ pc = "wait"
  /\ creation_completion_event_ /\ ~creation_completion_set_event_


\* C8, as stated: when InitializeShaderStorage(blocking = true) returns, every
\* build that the replay of the pipeline storage triggered has finished: no
\* entry inserted by the replay is still in the creation queue or held by a
\* busy creation thread, and each has had its factory call made.
C8_BlockingReplayFinished ==
  (op = "InitializeShaderStorage" /\ pc = "idle" /\ blocking) =>
    \A e \in replay_created :
      QueueCount(e) = 0 /\ Holders(e) = {} /\ builds[e] = 1

\* C9, as stated: a ConfigurePipeline call that misses the table and uses a
\* shader whose translation has failed returns false, does not call the
\* translator and inserts no entry.
C9_FailedIsTerminal ==
  [][(/\ ConfigureStep
      /\ path' \in {"untranslated", "created"}
      /\ \/ shader_map_[arg'.vs] = "Failed"
         \/ arg'.ps # 0 /\ shader_map_[arg'.ps] = "Failed")
     => /\ out' = NULL
        /\ translations' = translations
        /\ pipeline_states_' = pipeline_states_]_vars

(***************************************************************************)
(* The load of the shader storage file: InitializeShaderStorage called on  *)
(* any small file, with any shaders loaded before the call.                *)
(***************************************************************************)
RECURSIVE SeqsUpTo(_, _)
SeqsUpTo(S, n) ==
  IF n = 0 THEN {<<>>}
  ELSE LET shorter == SeqsUpTo(S, n - 1)
       IN shorter \cup {Append(q, x) : q \in shorter, x \in S}
ShaderFiles ==
  {ShaderFileHeader \o body : body \in SeqsUpTo(0..MaxWord, MaxBodyLen)}
  \cup {<<>>, <<shader_storage_magic>>, <<shader_storage_magic, 0>>,
        <<0, byte_swap(kVersion)>>}

InitShaderLog ==
  InitWith({MaxThreads},
           {[shaders |-> f, pipeline_states |-> <<>>] : f \in ShaderFiles})

NextShaderLog ==
  \/ \E s \in Shaders : LoadShader(GuestUcode(s))
  \/ InitializeShaderStorage(FALSE)
  \/ ShutdownShaderStorageJoin
  \/ \E io \in OpenResults : InitializeShaderStorageOpen(io)
  \/ InitializeShaderStorageStartThread
  \/ StorageWriteThread

SpecShaderLog == InitShaderLog /\ [][NextShaderLog]_vars

\* The length in dwords of the longest prefix of valid records in a file
\* body: a record is valid when its header and its microcode are complete and
\* the stored hash is the hash of the microcode.
RECURSIVE ValidPrefix(_, _)
ValidPrefix(file, pos) ==
  IF pos + ShaderStoredHeaderSize > Len(file) THEN pos
  ELSE LET next == pos + ShaderStoredHeaderSize + file[pos + 2]
       IN IF next > Len(file) THEN pos
          ELSE IF XXH64(SubSeq(file, pos + ShaderStoredHeaderSize + 1, next))
                  # file[pos + 1] THEN pos
          ELSE ValidPrefix(file, next)
\* The hashes of the records of that prefix.
RECURSIVE PrefixHashes(_, _, _)
PrefixHashes(file, pos, end) ==
  IF pos >= end THEN {}
  ELSE {file[pos + 1]} \cup
       PrefixHashes(file, pos + ShaderStoredHeaderSize + file[pos + 2], end)

\* C10, as stated: a load of a shader storage file with a matching header
\* loads exactly the records of its valid prefix: the file is truncated to the
\* header plus those records, and the shaders in the map afterwards are those
\* that were there, plus those of the prefix (but for the ones whose
\* translation failed).
ShaderStorageLoaded ==
  /\ pc = "open" /\ pc' \in {"replay", "start_writer"}
  /\ HeaderValid(shader_log)
C10_ShaderLogRecovery ==
  [][ShaderStorageLoaded =>
      LET end == ValidPrefix(shader_log, FileHeaderSize)
          hashes == PrefixHashes(shader_log, FileHeaderSize, end)
      IN /\ shader_log' = SubSeq(shader_log, 1, end)
         /\ \A s \in Shaders :
              shader_map_'[s] # "absent" =>
                (shader_map_[s] # "absent" \/ s \in hashes)
         /\ \A s \in hashes :
              TranslatorValid(s) => shader_map_'[s] # "absent"]_vars

(***************************************************************************)
(* The load of the pipeline state storage file: InitializeShaderStorage    *)
(* called on any small file of dwords 0..MaxPipelineWord, next to a shader *)
(* storage file that holds the two shaders that translate or that has a    *)
(* header that does not match; one creation thread.                        *)
(***************************************************************************)
MaxPipelineWord == 1
MaxPipelineBodyLen == 9

\* One valid record behind each kind of header that does not match.
PipelineFiles ==
  {PipelineFileHeader \o body :
     body \in SeqsUpTo(0..MaxPipelineWord, MaxPipelineBodyLen)}
  \cup {<<>>, <<pipeline_state_storage_magic>>,
        <<pipeline_state_storage_magic, pipeline_state_storage_magic_api>>}
  \cup {header \o PipelineStoredDescription([vs |-> 1, ps |-> 0, rt |-> 0]) :
          header \in
            {<<0, pipeline_state_storage_magic_api,
               byte_swap(PipelineDescription_kVersion)>>,
             <<pipeline_state_storage_magic, pipeline_state_storage_magic_rov,
               byte_swap(PipelineDescription_kVersion)>>,
             <<pipeline_state_storage_magic, pipeline_state_storage_magic_api,
               0>>}}
PipelineLogShaderFiles ==
  {ShaderFileHeader \o ShaderRecord(1) \o ShaderRecord(2),
   <<0, byte_swap(kVersion)>> \o ShaderRecord(1),
   <<shader_storage_magic, 0>> \o ShaderRecord(1) \o ShaderRecord(2),
   <<shader_storage_magic>>}

InitPipelineLog ==
  InitWith({1}, {[shaders |-> f, pipeline_states |-> g] :
                   f \in PipelineLogShaderFiles, g \in PipelineFiles})

NextPipelineLog ==
  \/ LoadShader(GuestUcode(1))
  \/ \E b \in BOOLEAN : InitializeShaderStorage(b)
  \/ ShutdownShaderStorageJoin
  \/ \E io \in OpenResults : InitializeShaderStorageOpen(io)
  \/ \E ok \in BOOLEAN : ReplayPipelineState(ok)
  \/ ProcessorCreate
  \/ ProcessorDrained
  \/ InitializeShaderStorageReplayed
  \/ InitializeShaderStorageStartThread
  \/ CreationThreads
  \/ StorageWriteThread

SpecPipelineLog == InitPipelineLog /\ [][NextPipelineLog]_vars

\* The number of leading records of a pipeline state storage file whose
\* stored hash is the hash of their description.
RECURSIVE ValidRecordCount(_, _)
ValidRecordCount(file, k) ==
  LET at == PipelineFileHeaderSize + k * PipelineStoredDescriptionSize
  IN IF at + PipelineStoredDescriptionSize > Len(file) THEN k
     ELSE IF file[at + 1] #
             DescHash([vs |-> file[at + 2], ps |-> file[at + 3],
                       rt |-> file[at + 4]]) THEN k
     ELSE ValidRecordCount(file, k + 1)
\* The headers as they are on disk when they match.
PipelineHeaderMatches(file) ==
  /\ Len(file) >= PipelineFileHeaderSize
  /\ SubSeq(file, 1, PipelineFileHeaderSize) = PipelineFileHeader
ShaderHeaderMatches(file) ==
  /\ Len(file) >= FileHeaderSize
  /\ SubSeq(file, 1, FileHeaderSize) = ShaderFileHeader
\* InitializeShaderStorage is between the end of the loop over the stored
\* descriptions and the truncation of the file.
PipelineStorageReplayed ==
  /\ op = "InitializeShaderStorage"
  /\ pc \in {"drain", "replayed", "start_writer"}

\* C11 (pipeline-log corruption recovery): in a load of a pipeline state
\* storage file with a matching header whose first K records are hash-valid
\* and whose record K+1 (if any) is not, the loop processes the records in
\* order and never one beyond the first K, it has processed exactly K when it
\* ends, and the file is truncated to the header plus K records, whether the
\* K records were inserted in the table or skipped.
C11_PipelineLogRecovery ==
  /\ [](pc = "replay" =>
          /\ replay_next - 1 <= ValidRecordCount(pipeline_log, 0)
          /\ pipeline_state_storage_valid_bytes =
               PipelineFileHeaderSize
               + (replay_next - 1) * PipelineStoredDescriptionSize)
  /\ []((PipelineStorageReplayed /\ PipelineHeaderMatches(pipeline_log)) =>
          replay_next - 1 = ValidRecordCount(pipeline_log, 0))
  /\ [][(pc = "start_writer" /\ pc' = "idle"
         /\ PipelineHeaderMatches(pipeline_log)) =>
          pipeline_log' =
            SubSeq(pipeline_log, 1,
                   PipelineFileHeaderSize
                   + ValidRecordCount(pipeline_log, 0)
                     * PipelineStoredDescriptionSize)]_vars
\* The load of a file with two valid records, of which one was inserted and
\* one skipped, and more dwords after them, at the point of the truncation.
C11_Witness ==
  /\ pc = "start_writer" /\ PipelineHeaderMatches(pipeline_log)
  /\ ValidRecordCount(pipeline_log, 0) = 2
  /\ Len(pipeline_log) >
       PipelineFileHeaderSize + 2 * PipelineStoredDescriptionSize
  /\ Cardinality(replay_created) = 1

\* C12 (header mismatch): a load of a shader storage file whose header is
\* missing or has another magic or version inserts no shader and leaves the
\* file as one header; a load of a pipeline state storage file whose header
\* is missing or has another magic, mode tag or version replays no record,
\* inserts no entry and leaves the file as one header.
C12_HeaderMismatch ==
  /\ [][(pc = "open" /\ pc' \in {"replay", "start_writer"}
         /\ ~ShaderHeaderMatches(shader_log)) =>
          (shader_log' = ShaderFileHeader /\ shader_map_' = shader_map_)]_vars
  /\ [][(pc = "open" /\ pc' \in {"replay", "start_writer"}
         /\ ~PipelineHeaderMatches(pipeline_log)) =>
          (pc' = "start_writer" /\ pipeline_states_' = pipeline_states_)]_vars
  /\ [][(pc = "start_writer" /\ pc' = "idle"
         /\ ~PipelineHeaderMatches(pipeline_log)) =>
          (pipeline_log' = PipelineFileHeader
           /\ pipeline_states_' = pipeline_states_)]_vars
\* A load that has emptied a shader storage file whose header did not match,
\* and is about to empty a pipeline state storage file that holds a record
\* behind a header with the tag of the other mode.
C12_Witness ==
  /\ op = "InitializeShaderStorage" /\ pc = "start_writer" /\ calls = 1
  /\ shader_log = ShaderFileHeader /\ ContentStoreEmpty
  /\ Len(pipeline_log) > PipelineFileHeaderSize
  /\ pipeline_log[1] = pipeline_state_storage_magic
  /\ pipeline_log[2] = pipeline_state_storage_magic_rov
  /\ pipeline_states_ = {}

(***************************************************************************)
(* The cache without creation threads (the configured count is 0), with    *)
(* its shader storage: every public method, draws with every shader and    *)
(* with a root signature that can fail to resolve, and microcode whose     *)
(* hash collides.                                                          *)
(***************************************************************************)
\* The microcode of the guest programs, and one more program whose XXH64 is
\* that of GuestUcode(1).
Microcodes == {GuestUcode(s) : s \in Shaders} \cup {<<0, 0>>}

InitSynchronous == InitWith({0}, StoredFiles)

NextSynchronous ==
  \/ \E host_address \in Microcodes : LoadShader(host_address)
  \/ \E d \in Descriptions, ok \in BOOLEAN : ConfigurePipeline(d, ok)
  \/ EndSubmission
  \/ ClearCache
  \/ Shutdown
  \/ ClearCacheQuiesce
  \/ ClearCacheDestroy
  \/ \E b \in BOOLEAN : InitializeShaderStorage(b)
  \/ ShutdownShaderStorageJoin
  \/ \E io \in OpenResults : InitializeShaderStorageOpen(io)
  \/ \E ok \in BOOLEAN : ReplayPipelineState(ok)
  \/ ProcessorDrained
  \/ InitializeShaderStorageReplayed
  \/ InitializeShaderStorageStartThread
  \/ StorageWriteThread

SpecSynchronous == InitSynchronous /\ [][NextSynchronous]_vars

\* C17: with zero creation threads the creation queue is empty in every
\* state, and every entry of the table, inserted by ConfigurePipeline or by
\* the replay of the pipeline state storage, has had its one factory call
\* made and the result stored by the time the inserting call goes on.
C17_SynchronousBuild ==
  creation_threads_ = 0 =>
    /\ creation_queue_ = <<>>
    /\ \A e \in pipeline_states_ :
         builds[e] = 1 /\ estate[e] \in FactoryResults
\* Without creation threads, one entry inserted by the replay and one by
\* ConfigurePipeline.
C17_Witness ==
  /\ creation_threads_ = 0
  /\ op = "ConfigurePipeline" /\ path = "created"
  /\ replay_created # {} /\ pipeline_states_ \ replay_created # {}

\* C15: a ConfigurePipeline call that returns false, because no description
\* could be built or because EnsureShadersTranslated failed, leaves the
\* pipeline state table, the creation queue, the queue of pipeline states to
\* write and current_pipeline_state_ as they were.
C15_FailedConfigureFrame ==
  [][(ConfigureStep /\ out' = NULL) =>
      /\ pipeline_states_' = pipeline_states_
      /\ edesc' = edesc /\ estate' = estate
      /\ creation_queue_' = creation_queue_
      /\ storage_write_pipeline_state_queue_' =
           storage_write_pipeline_state_queue_
      /\ current_pipeline_state_' = current_pipeline_state_]_vars
\* A call that failed in the translation of its vertex shader, made with the
\* storage open, an entry in the table and current_pipeline_state_ set.
C15_Witness ==
  /\ op = "ConfigurePipeline" /\ path = "untranslated" /\ out = NULL
  /\ pipeline_state_storage_file_
  /\ current_pipeline_state_ \in pipeline_states_

\* Both storage files are closed and there is no storage write thread.
PersistenceDisabled ==
  /\ ~shader_storage_file_ /\ ~pipeline_state_storage_file_
  /\ storage_write_thread_ = "none"
\* C16: when InitializeShaderStorage returns because the folder or one of
\* the two files could not be opened, both file handles are null and no
\* storage write thread runs; and a ConfigurePipeline call made in that state
\* pushes nothing to the two write queues, sets neither flush-needed flag,
\* and still returns an entry when its shaders translate and its root
\* signature resolves.
C16_OpenFailureDisablesStorage ==
  /\ [][(pc = "open" /\ pc' = "idle") => PersistenceDisabled']_vars
  /\ [][(ConfigureStep /\ PersistenceDisabled) =>
          /\ storage_write_shader_queue_' = <<>>
          /\ storage_write_pipeline_state_queue_' = <<>>
          /\ ~shader_storage_file_flush_needed_'
          /\ ~pipeline_state_storage_file_flush_needed_'
          /\ PersistenceDisabled'
          /\ (/\ arg' # NoDesc
              /\ TranslatorValid(arg'.vs)
              /\ arg'.ps # 0 => TranslatorValid(arg'.ps))
             => (out' \in pipeline_states_' /\ edesc'[out'] = arg')]_vars
\* A ConfigurePipeline call that created an entry after an
\* InitializeShaderStorage that opened (and created) the shader storage file
\* and could not open the pipeline state storage file.
C16_Witness ==
  /\ op = "ConfigurePipeline" /\ path = "created"
  /\ PersistenceDisabled
  /\ shader_log = ShaderFileHeader /\ pipeline_log = <<>>

\* C18: a LoadShader call returns the shader of the map whose key is the hash
\* of the microcode; when the map already holds one, the map and the shader
\* objects are left as they were (a second call with the same microcode
\* returns the object of the first), otherwise one untranslated shader
\* holding the microcode is inserted under that key; in both cases no other
\* shader changes and no translation is made.
C18_LoadShaderIdempotent ==
  [][\A host_address \in Microcodes :
       LoadShader(host_address) =>
         LET data_hash == XXH64(host_address)
         IN /\ out' = data_hash
            /\ shader_map_'[data_hash] # "absent"
            /\ translations' = translations
            /\ \A s \in Shaders \ {data_hash} :
                 shader_map_'[s] = shader_map_[s]
                 /\ shader_ucode'[s] = shader_ucode[s]
            /\ IF shader_map_[data_hash] # "absent"
                 THEN /\ shader_map_' = shader_map_
                      /\ shader_ucode' = shader_ucode
                 ELSE /\ shader_map_'[data_hash] = "Untranslated"
                      /\ shader_ucode'[data_hash] =
                           [i \in 1..Len(host_address) |->
                              byte_swap(host_address[i])]]_vars
\* LoadShader has returned a shader that was translated before the call.
C18_Witness ==
  /\ op = "LoadShader" /\ out \in Shaders
  /\ shader_map_[out] = "Translated"
  /\ pipeline_states_ # {}

\* The dwords of the records of the first k shaders pushed to the shader
\* write queue, in the order of the pushes: for each the hash and the dword
\* count, then the microcode in guest endianness.
RECURSIVE EnqueuedShaderRecords(_, _)
EnqueuedShaderRecords(enqueued, k) ==
  IF k = 0 THEN <<>>
  ELSE EnqueuedShaderRecords(enqueued, k - 1)
       \o <<enqueued[k].hash, Len(enqueued[k].dwords)>>
       \o [i \in 1..Len(enqueued[k].dwords) |->
             byte_swap(enqueued[k].dwords[i])]
\* The same for the first k descriptions pushed to the pipeline state write
\* queue.
RECURSIVE EnqueuedPipelineRecords(_, _)
EnqueuedPipelineRecords(enqueued, k) ==
  IF k = 0 THEN <<>>
  ELSE EnqueuedPipelineRecords(enqueued, k - 1)
       \o <<DescHash(enqueued[k]), enqueued[k].vs, enqueued[k].ps,
            enqueued[k].rt>>
\* What has been appended to a file since it was opened.
AppendedSince(file, opened) == SubSeq(file, opened + 1, Len(file))
\* The last n elements of a sequence.
LastN(seq, n) == SubSeq(seq, Len(seq) - n + 1, Len(seq))
\* C20: what the storage write thread has appended to each of the two files
\* since the file was opened is the records of a prefix of the sequence of
\* values pushed to that file's queue, in the order of the pushes and each
\* once; while the files are open that prefix is everything pushed except
\* what is still in the queue, and the queue holds the rest in order.
C20_WriterFIFO ==
  /\ shader_log_opened <= Len(shader_log)
  /\ pipeline_log_opened <= Len(pipeline_log)
  /\ Len(storage_write_shader_queue_) <= Len(shader_enqueued)
  /\ Len(storage_write_pipeline_state_queue_) <= Len(pipeline_state_enqueued)
  /\ \E k \in 0..Len(shader_enqueued) :
       /\ AppendedSince(shader_log, shader_log_opened) =
            EnqueuedShaderRecords(shader_enqueued, k)
       /\ shader_storage_file_ =>
            /\ k = Len(shader_enqueued) - Len(storage_write_shader_queue_)
            /\ storage_write_shader_queue_ =
                 [i \in 1..Len(storage_write_shader_queue_) |->
                    LastN(shader_enqueued,
                          Len(storage_write_shader_queue_))[i].hash]
  /\ \E k \in 0..Len(pipeline_state_enqueued) :
       /\ AppendedSince(pipeline_log, pipeline_log_opened) =
            EnqueuedPipelineRecords(pipeline_state_enqueued, k)
       /\ pipeline_state_storage_file_ =>
            /\ k = Len(pipeline_state_enqueued)
                   - Len(storage_write_pipeline_state_queue_)
            /\ storage_write_pipeline_state_queue_ =
                 LastN(pipeline_state_enqueued,
                       Len(storage_write_pipeline_state_queue_))
\* The writer has written the two shaders and the first of the two
\* descriptions pushed since the files were opened; the second description
\* is still in the queue.
C20_Witness ==
  /\ Len(shader_enqueued) = 2 /\ storage_write_shader_queue_ = <<>>
  /\ Len(shader_log) > shader_log_opened + 2
  /\ Len(pipeline_state_enqueued) = 2
  /\ Len(storage_write_pipeline_state_queue_) = 1
  /\ Len(pipeline_log) = pipeline_log_opened + PipelineStoredDescriptionSize

\* C13: when the shader storage file was empty at its opening (only the
\* header), the writer has appended the records of the first k shaders
\* pushed to it, and the file is then loaded into an empty shader map, the
\* map holds exactly those k shaders, each under its hash and with the
\* microcode it had when it was pushed.
C13_ShaderLogRoundTrip ==
  [][(/\ pc = "open" /\ pc' \in {"replay", "start_writer"}
      /\ ContentStoreEmpty
      /\ shader_log_opened = FileHeaderSize)
     => \E k \in 0..Len(shader_enqueued) :
          /\ AppendedSince(shader_log, FileHeaderSize) =
               EnqueuedShaderRecords(shader_enqueued, k)
          /\ \A s \in Shaders :
               shader_map_'[s] # "absent" <=>
                 \E i \in 1..k : shader_enqueued[i].hash = s
          /\ \A i \in 1..k :
               shader_ucode'[shader_enqueued[i].hash] =
                 shader_enqueued[i].dwords
          /\ \A i, j \in 1..k :
               shader_enqueued[i].hash = shader_enqueued[j].hash => i = j]_vars
\* ClearCache has reloaded a file that the first call created and to which the
\* writer then appended the records of shaders 1 and 2 (and, to the pipeline
\* state file, the one description that used them): both are in the map again.
C13_Witness ==
  /\ op = "ClearCache" /\ pc = "start_writer"
  /\ Len(shader_log) = FileHeaderSize + 6
  /\ shader_map_[1] = "Translated" /\ shader_map_[2] = "Translated"
  /\ shader_ucode[1] = ucode_dwords(1) /\ shader_ucode[2] = ucode_dwords(2)
  /\ Len(pipeline_log) = PipelineFileHeaderSize + PipelineStoredDescriptionSize
  /\ pipeline_log[PipelineFileHeaderSize + PipelineStoredDescriptionSize] = 1

\* C19: with creation threads, every entry that is in the creation queue is
\* eventually passed to the factory, by a creation thread or by the
\* processor thread, unless a ClearCache or Shutdown call is made first,
\* when the creation thread steps are scheduled fairly and the factory
\* returns; and once ConfigurePipeline has pushed and notified, the queue is
\* never non-empty with every creation thread waiting: a thread that did not
\* wait when the entry was pushed tests the queue again before it waits.
C19_QueuedEventuallyBuilt ==
  /\ \A e \in Entries :
       (QueueCount(e) >= 1 /\ creation_threads_ # 0)
         ~> (builds[e] >= 1 \/ op \in {"ClearCache", "Shutdown"})
  /\ [](/\ creation_queue_ # <<>> /\ creation_threads_ # 0
        /\ op \notin {"ClearCache", "Shutdown"}
        => \E w \in Threads : wstate[w] \in {"check", "create", "created"})
\* ConfigurePipeline has pushed an entry while no creation thread waited: one
\* is finishing the build of the other entry and none is waiting.
C19_Witness ==
  /\ op = "ConfigurePipeline" /\ path = "created" /\ pc = "idle"
  /\ creation_threads_ # 0 /\ Len(creation_queue_) = 1
  /\ \E w \in Threads : wstate[w] = "created"
  /\ \A w \in Threads : wstate[w] # "wait"

(***************************************************************************)
(* SpecInitialize: Initialize() on a constructed cache, for every reported *)
(* processor count and cvar value of the bounds.                           *)
(***************************************************************************)
InitConstructed ==
  /\ pc = "constructed" /\ op = "none"
  /\ logical_processor_count \in 0..MaxProcessorCount
  /\ d3d12_pipeline_creation_threads \in -2..MaxCvarThreads
  /\ creation_threads_ = 0
  /\ wstate = StartedThreads(0)
  /\ InitFields({NoFiles})

SpecInitialize == InitConstructed /\ [][Initialize]_vars

\* C22: Initialize starts max(L*3/4, 1) creation threads (integer division)
\* when the configured count is negative, min(c, L) when it is positive and
\* none when it is 0, L being the logical processor count, or 6 when that
\* is reported as 0.
C22_PoolSizing ==
  [][(pc = "constructed" /\ pc' = "idle") =>
       LET L == IF logical_processor_count = 0 THEN 6
                ELSE logical_processor_count
           c == d3d12_pipeline_creation_threads
           three_quarters == CHOOSE q \in 0..(3 * L) :
                               4 * q <= 3 * L /\ 3 * L < 4 * (q + 1)
       IN CASE c < 0 -> creation_threads_' =
                          (IF three_quarters >= 1 THEN three_quarters ELSE 1)
            [] c > 0 -> creation_threads_' = (IF c <= L THEN c ELSE L)
            [] c = 0 -> creation_threads_' = 0]_vars
\* Initialize has run on a host with one logical processor and a negative
\* cvar: three quarters of 1 is 0, and one thread was started.
C22_Witness ==
  /\ pc = "idle" /\ op = "Initialize"
  /\ logical_processor_count = 1 /\ d3d12_pipeline_creation_threads < 0
  /\ creation_threads_ = 1

\* SpecSynchronous with a storage write thread that is scheduled fairly: an
\* iteration of its loop that stays possible is taken.
FairSpecSynchronous == SpecSynchronous /\ WF_vars(StorageWriteThread)

\* No flush of either file is requested or taken by the writer and not yet
\* performed.
NoFlushPending ==
  /\ ~storage_write_flush_shaders_ /\ ~storage_write_flush_pipeline_states_
  /\ ~flush_shaders /\ ~flush_pipeline_states
\* C21, as stated: every flush that EndSubmission has requested from a
\* storage write thread is eventually performed by the thread's fflush, when
\* the thread is scheduled fairly, whether or not anything is enqueued or
\* requested afterwards (a shutdown of the storage ends the obligation).
C21_FlushPerformed ==
  (/\ storage_write_flush_shaders_ \/ storage_write_flush_pipeline_states_
   /\ storage_write_thread_ \in {"run", "wait"})
    ~> (NoFlushPending \/ storage_write_thread_shutdown_)

\* C23, as stated: whenever CreateQueuedPipelineStatesOnProcessorThread is
\* called, from EndSubmission or from the replay of the pipeline state
\* storage, there is at least one creation thread, which is what the
\* assertion at its start tests.
C23_AssertionHolds == pc = "drain" => creation_threads_ # 0

(***************************************************************************)
(* SpecReplay: the cache without creation threads, on a host with one or   *)
(* with LogicalProcessors processors, opened on the files of a run that    *)
(* stored three shaders, one of which fails to translate now, and two      *)
(* pipeline state descriptions.                                            *)
(***************************************************************************)
ReplayFiles ==
  {NoFiles,
   [shaders |->
      ShaderFileHeader \o ShaderRecord(1) \o ShaderRecord(2)
      \o ShaderRecord(3),
    pipeline_states |->
      PipelineFileHeader
      \o PipelineStoredDescription([vs |-> 1, ps |-> 2, rt |-> 0])
      \o PipelineStoredDescription([vs |-> 3, ps |-> 0, rt |-> 0])]}

InitReplay == InitWithProcessors({0}, ReplayFiles, {1, LogicalProcessors})

SpecReplay == InitReplay /\ [][NextSynchronous]_vars

\* C24, as stated: when the replay of R >= 1 stored descriptions begins, the
\* pool has been grown to max(min(R, L) - 1, original count) creation
\* threads; and when InitializeShaderStorage returns the pool has the size
\* it had at the call and creation_threads_shutdown_from_ is SIZE_MAX.
C24_ReplayPoolGrown ==
  /\ [][(pc = "open" /\ pc' = "replay") =>
          LET R == Len(pipeline_stored_descriptions')
              L == IF logical_processor_count = 0 THEN 6
                   ELSE logical_processor_count
              smaller == IF R < L THEN R ELSE L
          IN creation_threads_' =
               (IF smaller - 1 > creation_threads_ THEN smaller - 1
                ELSE creation_threads_)]_vars
  /\ [][(op = "InitializeShaderStorage" /\ pc # "idle" /\ pc' = "idle") =>
          /\ creation_threads_' =
               creation_thread_count(
                 d3d12_pipeline_creation_threads,
                 LogicalProcessorCount(logical_processor_count))
          /\ creation_threads_shutdown_from_' = SIZE_MAX]_vars

\* C25: whenever a creation thread returns from CreationThread, which it
\* does when its index is at or above creation_threads_shutdown_from_, the
\* creation queue is empty: no queued entry is left behind by the threads
\* that shut down.
C25_ExitWithEmptyQueue ==
  [][\A w \in Threads :
       (wstate[w] # "exit" /\ wstate'[w] = "exit") =>
         /\ w >= creation_threads_shutdown_from_
         /\ creation_queue_ = <<>> /\ creation_queue_' = <<>>]_vars
\* Shutdown has asked the threads to shut down after entries were built (and
\* destroyed by its ClearCache), and one thread has returned while the other
\* has not yet.
C25_Witness ==
  /\ op = "Shutdown" /\ pc = "join_threads"
  /\ creation_threads_shutdown_from_ = 0
  /\ \E w \in Threads : wstate[w] = "exit"
  /\ \E w \in Threads : wstate[w] = "check"
  /\ calls = MaxCalls

\* C26: the entry a ConfigurePipeline call returns has the description of
\* the call, byte for byte, also when another entry of the table has the same
\* description hash; and two successive calls with different descriptions
\* return different entries.
C26_CollisionsByEquality ==
  [][(ConfigureStep /\ out' # NULL) =>
       /\ out' \in pipeline_states_'
       /\ edesc'[out'] = arg'
       /\ (op = "ConfigurePipeline" /\ out # NULL /\ arg # arg')
            => out' # out]_vars
\* A lookup in the table has returned one of two entries whose descriptions
\* differ and have the same hash.
C26_Witness ==
  /\ op = "ConfigurePipeline" /\ path = "found"
  /\ \E e \in pipeline_states_ :
       /\ e # out
       /\ DescHash(edesc[e]) = DescHash(edesc[out])
       /\ edesc[e] # edesc[out]

\* C27, as stated: whenever an entry is inserted into the pipeline state
\* table, by ConfigurePipeline or by the replay of the pipeline state
\* storage, its vertex shader and, when it has one, its pixel shader are in
\* the shader map and translated successfully: none is absent, untranslated
\* or failed.
C27_EntriesUseValidShaders ==
  [][\A e \in pipeline_states_' \ pipeline_states_ :
       /\ shader_map_'[edesc'[e].vs] = "Translated"
       /\ edesc'[e].ps # 0 => shader_map_'[edesc'[e].ps] = "Translated"]_vars

\* C28: when the load of the shader storage has run, no shader whose
\* translation by the load failed is in the shader map; and a LoadShader
\* call with the microcode of a shader that the load erased inserts a new
\* untranslated shader.
C28_FailedReplayShadersErased ==
  /\ [][(pc = "open" /\ pc' # "open") =>
          \A s \in Shaders :
            /\ (translations'[s] > translations[s] /\ ~TranslatorValid(s))
                 => shader_map_'[s] = "absent"
            /\ shader_map_'[s] = "Failed" => shader_map_[s] = "Failed"]_vars
  /\ [][\A host_address \in Microcodes :
          (/\ LoadShader(host_address)
           /\ XXH64(host_address) \in shaders_failed_to_translate
           /\ shader_map_[XXH64(host_address)] = "absent")
          => /\ shader_map_'[XXH64(host_address)] = "Untranslated"
             /\ translations' = translations]_vars
\* The load has translated shader 1 and erased shader 3, whose translation
\* failed, and LoadShader has then inserted shader 3 again, untranslated.
C28_Witness ==
  /\ op = "LoadShader" /\ out = 3
  /\ 3 \in shaders_failed_to_translate
  /\ shader_map_[3] = "Untranslated"
  /\ shader_map_[1] = "Translated"
  /\ shader_storage_file_

\* A shader is taken out of the shader map in this step by the load of the
\* shader storage, which inserted it in the same step.
RemovedByReplay(s) == pc = "open" /\ s \in shaders_failed_to_translate'
\* A shader that was in the shader map before this step is not after it.
RemovedFromMap(s) == shader_map_[s] # "absent" /\ shader_map_'[s] = "absent"
\* C29, as stated: a shader that LoadShader or the load of the shader storage
\* has inserted into the shader map is removed from it only by ClearCache.
C29_Original ==
  [][\A s \in Shaders :
       (RemovedFromMap(s) \/ RemovedByReplay(s)) => pc = "destroy"]_vars
\* C29, amended: a shader is removed from the shader map only by ClearCache,
\* or by the load of the shader storage that inserted it when its
\* translation by that load failed; a shader that is in the map when an
\* operation begins is removed only by ClearCache.
C29_RemovedByClearOrFailedReplay ==
  [][\A s \in Shaders :
       /\ RemovedFromMap(s) => pc = "destroy"
       /\ RemovedByReplay(s) =>
            /\ shader_map_[s] = "absent" /\ shader_map_'[s] = "absent"
            /\ ~TranslatorValid(s)
            /\ translations'[s] = translations[s] + 1]_vars
\* The load of the shader storage has inserted shaders 1 and 3 and erased
\* shader 3, whose translation failed.
C29_Witness ==
  /\ pc \in {"replay", "start_writer"}
  /\ shaders_failed_to_translate = {3}
  /\ shader_map_[3] = "absent" /\ shader_map_[1] = "Translated"

\* C30, as stated: when the load of the shader storage has run, every shader
\* it inserted into the shader map has been translated by a translation
\* thread, whatever the number of logical processors: none is left
\* untranslated.
C30_ReplayTranslatesAll ==
  [][(pc = "open" /\ pc' # "open") =>
       \A s \in Shaders :
         (shader_map_[s] = "absent" /\ shader_map_'[s] # "absent") =>
           /\ shader_map_'[s] # "Untranslated"
           /\ translations'[s] = translations[s] + 1]_vars

(***************************************************************************)
(* InitializeShaderStorage, the load of the shader storage step by step:   *)
(* the loop over the records on the processor thread and the translation   *)
(* threads it creates, up to the return taken when the pipeline state      *)
(* storage file cannot be opened.                                          *)
(***************************************************************************)
\* A pop that hands the front element out and leaves it in the queue.
TakeFront_Keep(q) == q
\* shaders_to_translate.pop_front() after front() has been copied.
TakeFront(q) == Tail(q)

\* shaders_translation_thread_cond.notify_one(): the states of the
\* translation threads when one of the waiting threads, if any, is woken.
TranslationNotifyOne(ts) ==
  IF \E t \in TranslationThreads : ts[t] = "wait"
    THEN {[ts EXCEPT ![t] = "check"] :
            t \in {u \in TranslationThreads : ts[u] = "wait"}}
    ELSE {ts}
\* shaders_translation_thread_cond.notify_all()
TranslationNotifyAll(ts) ==
  [t \in TranslationThreads |-> IF ts[t] = "wait" THEN "check" ELSE ts[t]]

\* shader_translation_threads_needed
ShaderTranslationThreadsNeeded ==
  Min(shader_translation_threads_busy + Len(shaders_to_translate) + 1,
      LogicalProcessorCount(logical_processor_count) - 1)

\* InitializeShaderStorage in a cache whose storage is not open, when the
\* shader storage file opens and its header is valid: up to the loop.
LoadShaderStorageBegin ==
  /\ pc = "idle"
  /\ ~shader_storage_file_ /\ ~pipeline_state_storage_file_
  /\ storage_write_thread_ = "none"
  /\ HeaderValid(shader_log)
  /\ calls < MaxCalls /\ calls' = calls + 1
  /\ pc' = "load" /\ op' = "InitializeShaderStorage"
  /\ arg' = NoDesc /\ out' = NULL /\ path' = "none"
  /\ shader_storage_file_' = TRUE
  /\ shader_storage_file_flush_needed_' = FALSE
  /\ shader_storage_pos' = FileHeaderSize
  /\ shader_storage_valid_bytes' = FileHeaderSize
  /\ shaders_to_translate' = <<>>
  /\ shader_translation_threads' = 0
  /\ shader_translation_threads_busy' = 0
  /\ shader_translation_threads_shutdown' = FALSE
  /\ shaders_failed_to_translate' = {}
  /\ tstate' = [t \in TranslationThreads |-> "none"]
  /\ tshader' = [t \in TranslationThreads |-> 0]
  /\ storage_write_shader_queue_' = <<>>
  /\ storage_write_pipeline_state_queue_' = <<>>
  /\ UNCHANGED <<reinitialize_shader_storage, blocking,
                 pipeline_stored_descriptions, replay_next,
                 creation_thread_original_count,
                 pipeline_state_storage_valid_bytes,
                 logical_processor_count, d3d12_pipeline_creation_threads,
                 shaderVars, tableVars, poolVars,
                 pipeline_state_storage_file_, storage_write_thread_,
                 pipeline_state_storage_file_flush_needed_,
                 storage_write_flush_shaders_,
                 storage_write_flush_pipeline_states_,
                 storage_write_thread_shutdown_, flush_shaders,
                 flush_pipeline_states, shader_log, pipeline_log,
                 shader_enqueued, pipeline_state_enqueued,
                 shader_log_opened, pipeline_log_opened>>

\* One pass of the `while (true)` loop over the shader records.
LoadShaderStorageRecord ==
  /\ pc = "load"
  /\ LET pos == shader_storage_pos
         header_read == pos + ShaderStoredHeaderSize <= Len(shader_log)
         ucode_data_hash == shader_log[pos + 1]
         ucode_dword_count == shader_log[pos + 2]
         next == pos + ShaderStoredHeaderSize + ucode_dword_count
         size == ShaderStoredHeaderSize + ucode_dword_count
         threads == Max(shader_translation_threads,
                        ShaderTranslationThreadsNeeded)
         started == [t \in TranslationThreads |->
                       IF t > shader_translation_threads /\ t <= threads
                         THEN "check" ELSE tstate[t]]
     IN IF ~header_read
          THEN /\ pc' = "load_done"
               /\ UNCHANGED <<shaderVars, translationVars>>
        ELSE IF ucode_data_hash \in Shaders /\
                shader_map_[ucode_data_hash] # "absent"
          THEN /\ shader_storage_pos' = next
               /\ shader_storage_valid_bytes' =
                    shader_storage_valid_bytes + size
               /\ UNCHANGED <<pc, shaderVars, shaders_to_translate,
                              shader_translation_threads,
                              shader_translation_threads_busy,
                              shader_translation_threads_shutdown,
                              tstate, tshader>>
        ELSE IF \/ ucode_dword_count # 0 /\ next > Len(shader_log)
                \/ XXH64(SubSeq(shader_log,
                                pos + ShaderStoredHeaderSize + 1, next))
                     # ucode_data_hash
          THEN /\ pc' = "load_done"
               /\ UNCHANGED <<shaderVars, translationVars>>
        ELSE /\ shader_map_' =
                  [shader_map_ EXCEPT ![ucode_data_hash] = "Untranslated"]
             /\ shader_ucode' =
                  [shader_ucode EXCEPT ![ucode_data_hash] = copy_and_swap(
                     SubSeq(shader_log, pos + ShaderStoredHeaderSize + 1,
                            next))]
             /\ shader_translation_threads' = threads
             /\ shaders_to_translate' =
                  Append(shaders_to_translate, ucode_data_hash)
             /\ tstate' \in TranslationNotifyOne(started)
             /\ shader_storage_pos' = next
             /\ shader_storage_valid_bytes' =
                  shader_storage_valid_bytes + size
             /\ UNCHANGED <<pc, translations,
                            shader_translation_threads_busy,
                            shader_translation_threads_shutdown, tshader>>
  /\ UNCHANGED <<op, calls, arg, out, path, reinitialize_shader_storage,
                 blocking, pipeline_stored_descriptions, replay_next,
                 creation_thread_original_count,
                 pipeline_state_storage_valid_bytes,
                 logical_processor_count, d3d12_pipeline_creation_threads,
                 shaders_failed_to_translate, tableVars, poolVars,
                 storageVars>>

\* shader_translation_thread_function, the locked block: the thread takes
\* the front of shaders_to_translate, or waits, or returns.
TranslationThreadCheck(t) ==
  /\ tstate[t] = "check"
  /\ IF shaders_to_translate = <<>>
       THEN /\ tstate' = [tstate EXCEPT ![t] =
                 IF shader_translation_threads_shutdown THEN "exited"
                 ELSE "wait"]
            /\ UNCHANGED <<shaders_to_translate,
                           shader_translation_threads_busy, tshader>>
       ELSE /\ tshader' = [tshader EXCEPT ![t] = Head(shaders_to_translate)]
            /\ shaders_to_translate' = TakeFront(shaders_to_translate)
            /\ shader_translation_threads_busy' =
                 shader_translation_threads_busy + 1
            /\ tstate' = [tstate EXCEPT ![t] = "translate"]
  /\ UNCHANGED <<pc, op, calls, arg, out, path, reinitialize_shader_storage,
                 blocking, pipeline_stored_descriptions, replay_next,
                 creation_thread_original_count,
                 pipeline_state_storage_valid_bytes,
                 logical_processor_count, d3d12_pipeline_creation_threads,
                 shaders_failed_to_translate, shader_storage_pos,
                 shader_storage_valid_bytes, shader_translation_threads,
                 shader_translation_threads_shutdown,
                 shaderVars, tableVars, poolVars, storageVars>>

\* TranslateShader on the thread, and the push to
\* shaders_failed_to_translate when it returns false.
TranslationThreadTranslate(t) ==
  /\ tstate[t] = "translate"
  /\ shader_map_' = Translate(shader_map_, tshader[t])
  /\ translations' =
       [translations EXCEPT ![tshader[t]] = translations[tshader[t]] + 1]
  /\ shaders_failed_to_translate' =
       IF TranslateShader(shader_map_, tshader[t])
         THEN shaders_failed_to_translate
         ELSE shaders_failed_to_translate \cup {tshader[t]}
  /\ tstate' = [tstate EXCEPT ![t] = "translated"]
  /\ UNCHANGED <<pc, op, calls, arg, out, path, reinitialize_shader_storage,
                 blocking, pipeline_stored_descriptions, replay_next,
                 creation_thread_original_count,
                 pipeline_state_storage_valid_bytes,
                 logical_processor_count, d3d12_pipeline_creation_threads,
                 shader_storage_pos, shader_storage_valid_bytes,
                 shaders_to_translate, shader_translation_threads,
                 shader_translation_threads_busy,
                 shader_translation_threads_shutdown, tshader,
                 shader_ucode, tableVars, poolVars, storageVars>>

\* --shader_translation_threads_busy, and back to the top of the loop.
TranslationThreadDone(t) ==
  /\ tstate[t] = "translated"
  /\ shader_translation_threads_busy' = shader_translation_threads_busy - 1
  /\ tshader' = [tshader EXCEPT ![t] = 0]
  /\ tstate' = [tstate EXCEPT ![t] = "check"]
  /\ UNCHANGED <<pc, op, calls, arg, out, path, reinitialize_shader_storage,
                 blocking, pipeline_stored_descriptions, replay_next,
                 creation_thread_original_count,
                 pipeline_state_storage_valid_bytes,
                 logical_processor_count, d3d12_pipeline_creation_threads,
                 shaders_failed_to_translate, shader_storage_pos,
                 shader_storage_valid_bytes, shaders_to_translate,
                 shader_translation_threads,
                 shader_translation_threads_shutdown,
                 shaderVars, tableVars, poolVars, storageVars>>

\* After the loop: shader_translation_threads_shutdown and notify_all when
\* there are translation threads.
LoadShaderStorageShutdownThreads ==
  /\ pc = "load_done"
  /\ pc' = "load_join"
  /\ IF shader_translation_threads # 0
       THEN /\ shader_translation_threads_shutdown' = TRUE
            /\ tstate' = TranslationNotifyAll(tstate)
       ELSE UNCHANGED <<shader_translation_threads_shutdown, tstate>>
  /\ UNCHANGED <<op, calls, arg, out, path, reinitialize_shader_storage,
                 blocking, pipeline_stored_descriptions, replay_next,
                 creation_thread_original_count,
                 pipeline_state_storage_valid_bytes,
                 logical_processor_count, d3d12_pipeline_creation_threads,
                 shaders_failed_to_translate, shader_storage_pos,
                 shader_storage_valid_bytes, shaders_to_translate,
                 shader_translation_threads,
                 shader_translation_threads_busy, tshader,
                 shaderVars, tableVars, poolVars, storageVars>>

\* The translation threads are joined, the shaders that failed to translate
\* erased and the file truncated; the pipeline state storage file then fails
\* to open, the shader storage file is closed and the call returns.
LoadShaderStorageJoin ==
  /\ pc = "load_join"
  /\ \A t \in TranslationThreads :
       t <= shader_translation_threads => tstate[t] = "exited"
  /\ pc' = "idle"
  /\ shader_map_' =
       [s \in Shaders |->
          IF shader_translation_threads # 0 /\
             s \in shaders_failed_to_translate
            THEN "absent" ELSE shader_map_[s]]
  /\ shader_ucode' =
       [s \in Shaders |->
          IF shader_map_'[s] = "absent" THEN <<>> ELSE shader_ucode[s]]
  /\ shader_translation_threads' = 0
  /\ tstate' = [t \in TranslationThreads |-> "none"]
  /\ shader_log' = TruncateStdioFile(shader_log, shader_storage_valid_bytes)
  /\ shader_log_opened' = Len(shader_log')
  /\ shader_storage_file_' = FALSE
  /\ UNCHANGED <<op, calls, arg, out, path, reinitialize_shader_storage,
                 blocking, pipeline_stored_descriptions, replay_next,
                 creation_thread_original_count,
                 pipeline_state_storage_valid_bytes,
                 logical_processor_count, d3d12_pipeline_creation_threads,
                 shaders_failed_to_translate, shader_storage_pos,
                 shader_storage_valid_bytes, shaders_to_translate,
                 shader_translation_threads_busy,
                 shader_translation_threads_shutdown, tshader,
                 translations, tableVars, poolVars,
                 pipeline_state_storage_file_, storage_write_thread_,
                 storage_write_shader_queue_,
                 storage_write_pipeline_state_queue_,
                 shader_storage_file_flush_needed_,
                 pipeline_state_storage_file_flush_needed_,
                 storage_write_flush_shaders_,
                 storage_write_flush_pipeline_states_,
                 storage_write_thread_shutdown_, flush_shaders,
                 flush_pipeline_states, pipeline_log,
                 shader_enqueued, pipeline_state_enqueued,
                 pipeline_log_opened>>

\* The shader storage files of earlier runs: three records, one of them of
\* a shader that does not translate, and a file that holds a record twice.
TranslationFiles ==
  {[shaders |-> ShaderFileHeader \o ShaderRecord(1) \o ShaderRecord(2)
                \o ShaderRecord(3),
    pipeline_states |-> <<>>],
   [shaders |-> ShaderFileHeader \o ShaderRecord(2) \o ShaderRecord(2)
                \o ShaderRecord(1),
    pipeline_states |-> <<>>]}

InitTranslation ==
  InitWithProcessors({0}, TranslationFiles, {1, LogicalProcessors})

NextTranslation ==
  \/ \E host_address \in Microcodes : LoadShader(host_address)
  \/ \E d \in Descriptions, ok \in BOOLEAN : ConfigurePipeline(d, ok)
  \/ LoadShaderStorageBegin
  \/ LoadShaderStorageRecord
  \/ \E t \in TranslationThreads : TranslationThreadCheck(t)
  \/ \E t \in TranslationThreads : TranslationThreadTranslate(t)
  \/ \E t \in TranslationThreads : TranslationThreadDone(t)
  \/ LoadShaderStorageShutdownThreads
  \/ LoadShaderStorageJoin

SpecTranslation == InitTranslation /\ [][NextTranslation]_vars

\* The threads that are inside TranslateShader with shader s: the
\* translation threads of a load, and the processor thread, which translates
\* within a ConfigurePipeline call.
TranslatingThreads(s) ==
  {t \in TranslationThreads : tstate[t] = "translate" /\ tshader[t] = s}

\* C31: no shader is being translated by two threads at the same time: a
\* shader of shaders_to_translate is taken by one translation thread only,
\* the processor thread translates only outside a load, when no translation
\* thread is running, and the translation state of a shader object moves
\* from untranslated to translated or failed and never back (a shader that
\* stops being untranslated has been translated once more, and a translated
\* or failed shader changes only by being destroyed).
C31_OneTranslator ==
  [][/\ \A s \in Shaders : Cardinality(TranslatingThreads(s)) <= 1
     /\ (\E t \in TranslationThreads : tstate[t] \in {"check", "wait",
                                                      "translate",
                                                      "translated"})
          => pc \in {"load", "load_done", "load_join"}
     /\ pc \in {"load", "load_done", "load_join"} =>
          \A s \in Shaders :
            translations'[s] # translations[s] =>
              /\ TranslatingThreads(s) # {}
              /\ translations'[s] = translations[s] + 1
     /\ \A s \in Shaders :
          /\ is_translated(shader_map_[s]) =>
               shader_map_'[s] \in {shader_map_[s], "absent"}
          /\ (shader_map_[s] = "Untranslated" /\
              is_translated(shader_map_'[s])) =>
               translations'[s] = translations[s] + 1]_vars

\* C31, witness: two translation threads are inside TranslateShader at the
\* same time, with different shaders, and a third shader has been
\* translated by the processor thread before the load.
C31_Witness ==
  /\ \E t, u \in TranslationThreads :
       /\ t # u /\ tstate[t] = "translate" /\ tstate[u] = "translate"
       /\ tshader[t] # tshader[u]
  /\ \E s \in Shaders :
       is_translated(shader_map_[s]) /\ \A t \in TranslationThreads :
                                          tshader[t] # s

\* The shaders a step translates with success.
NewlyTranslated ==
  {s \in Shaders :
     shader_map_[s] = "Untranslated" /\ shader_map_'[s] = "Translated"}
\* What a step adds to the records pushed to a write queue.
Pushed(enqueued_before, enqueued_after) ==
  SubSeq(enqueued_after, Len(enqueued_before) + 1, Len(enqueued_after))

\* C32: while the storage files are open, a ConfigurePipeline call pushes
\* to storage_write_shader_queue_ one record for each shader it translates
\* with success and nothing else, and pushes to
\* storage_write_pipeline_state_queue_ the description of the pipeline
\* state it creates, once, and nothing when it finds the pipeline state or
\* fails; no other step, the replay of the two files included, pushes to
\* either queue.
C32_PersistOnce ==
  [][IF ConfigureStep
       THEN /\ Len(shader_enqueued') >= Len(shader_enqueued)
            /\ SubSeq(shader_enqueued', 1, Len(shader_enqueued))
                 = shader_enqueued
            /\ LET pushed == Pushed(shader_enqueued, shader_enqueued')
               IN /\ Len(pushed) = IF shader_storage_file_
                                     THEN Cardinality(NewlyTranslated) ELSE 0
                  /\ {pushed[i].hash : i \in 1..Len(pushed)}
                       = IF shader_storage_file_ THEN NewlyTranslated ELSE {}
                  /\ storage_write_shader_queue_' =
                       storage_write_shader_queue_ \o
                       [i \in 1..Len(pushed) |-> pushed[i].hash]
            /\ IF path' = "created" /\ pipeline_state_storage_file_
                 THEN /\ pipeline_state_enqueued' =
                           Append(pipeline_state_enqueued, arg')
                      /\ storage_write_pipeline_state_queue_' =
                           Append(storage_write_pipeline_state_queue_, arg')
                 ELSE UNCHANGED <<pipeline_state_enqueued,
                                  storage_write_pipeline_state_queue_>>
       ELSE /\ shader_enqueued' \in {shader_enqueued, <<>>}
            /\ pipeline_state_enqueued' \in {pipeline_state_enqueued, <<>>}
            /\ Len(storage_write_shader_queue_')
                 <= Len(storage_write_shader_queue_)
            /\ Len(storage_write_pipeline_state_queue_')
                 <= Len(storage_write_pipeline_state_queue_)]_vars

\* C32, witness: with the storage open, a ConfigurePipeline call has created
\* a pipeline state and translated its vertex shader: one shader record and
\* one description have been pushed, after a call that failed to translate
\* another shader and pushed nothing.
C32_Witness ==
  /\ path = "created" /\ shader_storage_file_
  /\ pipeline_state_storage_file_
  /\ Len(shader_enqueued) = 1 /\ Len(pipeline_state_enqueued) = 1
  /\ \E s \in Shaders : shader_map_[s] = "Failed"

\* C33: while storage_write_thread_ exists both storage files are open,
\* so the assertions of StorageWriteThread hold, and a ConfigurePipeline
\* call that finds a file open finds the write thread running, which is
\* what the assertions of EnsureShadersTranslated and ConfigurePipeline
\* test; while the thread exists only its own steps change a file, the
\* processor thread is outside the part of InitializeShaderStorage that
\* reads, truncates and writes the files, and a file is closed only by a
\* step that leaves no write thread, after the thread has returned.
C33_WriterOwnsFiles ==
  [][/\ storage_write_thread_ # "none" =>
          /\ shader_storage_file_ /\ pipeline_state_storage_file_
          /\ pc \notin {"open", "replay", "replayed", "start_writer"}
     /\ (ConfigureStep /\
         (shader_storage_file_ \/ pipeline_state_storage_file_)) =>
          storage_write_thread_ \in {"run", "wait"}
     /\ (storage_write_thread_ # "none" /\
         <<shader_log, pipeline_log>>' # <<shader_log, pipeline_log>>) =>
          StorageWriteThread
     /\ ((shader_storage_file_ /\ ~shader_storage_file_') \/
         (pipeline_state_storage_file_ /\ ~pipeline_state_storage_file_')) =>
          /\ storage_write_thread_ \in {"none", "exited"}
          /\ storage_write_thread_' = "none"]_vars

\* C33, witness: the write thread has appended a record to each file and is
\* waiting for more, and the processor thread is between two calls.
C33_Witness ==
  /\ storage_write_thread_ = "wait" /\ pc = "idle"
  /\ Len(shader_log) > shader_log_opened
  /\ Len(pipeline_log) > pipeline_log_opened

(***************************************************************************)
(* FairSpecStorage: SpecStorage with every thread scheduled fairly: the    *)
(* creation threads, the storage write thread, and the processor thread    *)
(* inside ClearCache, Shutdown and ShutdownShaderStorage.                  *)
(***************************************************************************)
FairSpecStorage ==
  /\ SpecStorage
  /\ Fairness
  /\ WF_vars(StorageWriteThread)
  /\ WF_vars(ShutdownShaderStorageJoin)
  /\ WF_vars(ClearCacheQuiesce)
  /\ WF_vars(ClearCacheDestroy)
  /\ WF_vars(JoinCreationThreads)

\* Shutdown has returned: every creation thread and the storage write
\* thread have been joined and creation_threads_ is empty.
ShutdownReturned ==
  /\ pc = "down"
  /\ creation_threads_ = 0
  /\ \A w \in Threads : wstate[w] = "none"
  /\ storage_write_thread_ = "none"

\* C34, as stated: when every thread is scheduled fairly and the factory
\* returns, a Shutdown call eventually returns, with every creation thread
\* and the storage write thread exited and joined, the list of creation
\* threads empty and no thread left waiting on creation_request_cond_.
C34_ShutdownTerminates == (op = "Shutdown") ~> ShutdownReturned

\* C35, as stated: when ShutdownShaderStorage closes the two files, every
\* record pushed to a write queue since the files were opened has been
\* appended to its file: the queues it clears are empty, and what the files
\* have gained is the records of everything pushed.
C35_ShutdownDrains ==
  [][(shader_storage_file_ /\ ~shader_storage_file_' /\
      storage_write_thread_ # "none") =>
       /\ storage_write_shader_queue_ = <<>>
       /\ storage_write_pipeline_state_queue_ = <<>>
       /\ AppendedSince(shader_log, shader_log_opened) =
            EnqueuedShaderRecords(shader_enqueued, Len(shader_enqueued))
       /\ AppendedSince(pipeline_log, pipeline_log_opened) =
            EnqueuedPipelineRecords(pipeline_state_enqueued,
                                    Len(pipeline_state_enqueued))]_vars

\* The storage was opened on two files that held their headers only, and
\* every shader translated since has been pushed to the write queue: no
\* shader was translated while the storage was closed.
PersistedFromStart ==
  /\ shader_storage_file_ /\ pipeline_state_storage_file_
  /\ shader_log_opened = FileHeaderSize
  /\ pipeline_log_opened = PipelineFileHeaderSize
  /\ \A s \in Shaders :
       shader_map_[s] = "Translated" =>
         \E i \in 1..Len(shader_enqueued) : shader_enqueued[i].hash = s
\* The hashes of the shader records of the shader storage file.
StoredShaderHashes ==
  PrefixHashes(shader_log, FileHeaderSize,
               ValidPrefix(shader_log, FileHeaderSize))

\* C36, as stated: in a cache that has had its storage open on empty files
\* since before its first translation, at every moment (so wherever the
\* process may stop) each description in the pipeline state storage file
\* has the records of its vertex shader and of its pixel shader, if any, in
\* the shader storage file.
C36_ShadersBeforePipeline ==
  PersistedFromStart =>
    \A k \in 1..ToldCount(pipeline_log) :
      LET d == ReadStoredDescriptions(pipeline_log)[k].description
      IN \A s \in {d.vs, d.ps} \ {0} : s \in StoredShaderHashes

\* C37: the storage write thread takes the requested flush of a file, and
\* resets its flag, only in a pass that finds the queue of that file empty,
\* when every record pushed for the file so far (so every record pushed
\* before the request) is in the file; from then until the thread's next
\* pass, which starts with the fflush, the file is not changed, so the
\* records are in the file when it is flushed.
C37_FlushAfterWrites ==
  [][/\ (StorageWriteThread /\ storage_write_flush_shaders_ /\
         ~storage_write_flush_shaders_') =>
          /\ flush_shaders'
          /\ storage_write_shader_queue_ = <<>>
          /\ AppendedSince(shader_log, shader_log_opened) =
               EnqueuedShaderRecords(shader_enqueued, Len(shader_enqueued))
          /\ shader_log' = shader_log
     /\ (StorageWriteThread /\ storage_write_flush_pipeline_states_ /\
         ~storage_write_flush_pipeline_states_') =>
          /\ flush_pipeline_states'
          /\ storage_write_pipeline_state_queue_ = <<>>
          /\ AppendedSince(pipeline_log, pipeline_log_opened) =
               EnqueuedPipelineRecords(pipeline_state_enqueued,
                                       Len(pipeline_state_enqueued))
          /\ pipeline_log' = pipeline_log
     /\ (flush_shaders' /\ ~flush_shaders) =>
          (StorageWriteThread /\ storage_write_flush_shaders_)
     /\ (flush_pipeline_states' /\ ~flush_pipeline_states) =>
          (StorageWriteThread /\ storage_write_flush_pipeline_states_)
     /\ (flush_shaders /\ ~StorageWriteThread) =>
          (shader_log' = shader_log /\ flush_shaders')
     /\ (flush_pipeline_states /\ ~StorageWriteThread) =>
          (pipeline_log' = pipeline_log /\ flush_pipeline_states')]_vars

\* C37, witness: the thread has written a shader record and a description,
\* found both queues empty in its next pass and taken the flush of both
\* files that EndSubmission requested; the fflush calls come next.
C37_Witness ==
  /\ flush_shaders /\ flush_pipeline_states
  /\ storage_write_thread_ = "wait"
  /\ Len(shader_enqueued) >= 1 /\ Len(pipeline_state_enqueued) >= 1
  /\ AppendedSince(shader_log, shader_log_opened) =
       EnqueuedShaderRecords(shader_enqueued, Len(shader_enqueued))
  /\ AppendedSince(pipeline_log, pipeline_log_opened) =
       EnqueuedPipelineRecords(pipeline_state_enqueued,
                               Len(pipeline_state_enqueued))

\* C38, as stated: when the loop over the records of a shader storage file
\* with a valid header ends, shader_storage_valid_bytes is at most the
\* length the file had when it was opened, so TruncateStdioFile does not
\* make the file longer, also when a record was skipped because its hash
\* was already in shader_map_.
C38_ValidBytesWithinFile ==
  [][ShaderStorageLoaded =>
      /\ ShaderStorageLoop(shader_log, FileHeaderSize, shader_map_,
                           shader_ucode, FileHeaderSize,
                           <<>>).shader_storage_valid_bytes
           <= Len(shader_log)
      /\ Len(shader_log') <= Len(shader_log)]_vars

\* C39: current_pipeline_state_ is nullptr or an entry of pipeline_states_:
\* a step changes it only to nullptr or to the entry the ConfigurePipeline
\* call returns, which is in the table; it is nullptr before ClearCache
\* deletes an entry; and a ConfigurePipeline call returns nullptr or an
\* entry of the table that has the description of the call.
C39_CurrentInTable ==
  [][/\ current_pipeline_state_ # NULL =>
          current_pipeline_state_ \in pipeline_states_
     /\ current_pipeline_state_' # current_pipeline_state_ =>
          \/ current_pipeline_state_' = NULL
          \/ /\ ConfigureStep /\ out' = current_pipeline_state_'
             /\ current_pipeline_state_' \in pipeline_states_'
     /\ (\E e \in pipeline_states_ : e \notin pipeline_states_') =>
          current_pipeline_state_ = NULL /\ current_pipeline_state_' = NULL
     /\ (ConfigureStep /\ out' # NULL) =>
          /\ out' \in pipeline_states_' /\ edesc'[out'] = arg'
          /\ current_pipeline_state_' = out']_vars

\* C39, witness: ClearCache is about to delete the entries that
\* ConfigurePipeline calls inserted, the last of which was the current
\* pipeline state, and current_pipeline_state_ is nullptr already.
C39_Witness ==
  /\ op = "ClearCache" /\ pc = "destroy"
  /\ Cardinality(pipeline_states_) = MaxEntries
  /\ current_pipeline_state_ = NULL

\* PipelineCache::IsCreatingPipelineStates
IsCreatingPipelineStates ==
  IF creation_threads_ = 0 THEN FALSE
  ELSE creation_queue_ # <<>> \/ creation_threads_busy_ # 0

\* The creation threads that have taken an entry from the queue and not yet
\* stored its state, and those that have not yet decremented
\* creation_threads_busy_ for it.
BuildingThreads == {w \in Threads : wstate[w] = "create"}
BusyThreads == {w \in Threads : wstate[w] \in {"create", "created"}}

\* C40, as stated: in every state creation_threads_busy_ is the number of
\* creation threads that have dequeued an entry and not yet stored its
\* state.
C40_Original == creation_threads_busy_ = Cardinality(BuildingThreads)

\* C40: creation_threads_busy_ is the number of creation threads between
\* the dequeue of an entry and the decrement that follows the store of its
\* state, so it is at least the number of threads still building and at
\* most the number of threads; it is incremented in the step that dequeues
\* and decremented by a thread that has stored the state of its entry; and
\* IsCreatingPipelineStates is true exactly when the queue is not empty or
\* the counter is not zero, also without creation threads.
C40_BusyAccounting ==
  [][/\ creation_threads_busy_ = Cardinality(BusyThreads)
     /\ Cardinality(BuildingThreads) <= creation_threads_busy_
     /\ 0 <= creation_threads_busy_
     /\ creation_threads_busy_ <= creation_threads_
     /\ creation_threads_busy_' > creation_threads_busy_ =>
          /\ creation_threads_busy_' = creation_threads_busy_ + 1
          /\ creation_queue_ # <<>>
          /\ creation_queue_' = Tail(creation_queue_)
          /\ \E w \in Threads :
               /\ wstate[w] = "check" /\ wstate'[w] = "create"
               /\ wentry'[w] = Head(creation_queue_)
     /\ creation_threads_busy_' < creation_threads_busy_ =>
          /\ creation_threads_busy_' = creation_threads_busy_ - 1
          /\ \E w \in Threads :
               /\ wstate[w] = "created" /\ wstate'[w] = "check"
               /\ builds[wentry[w]] >= 1
               /\ estate[wentry[w]] \in FactoryResults
     /\ IsCreatingPipelineStates <=>
          (creation_queue_ # <<>> \/ creation_threads_busy_ # 0)]_vars

\* C40, witness: one creation thread is building an entry and the other
\* has stored the state of its entry and not yet decremented the counter,
\* which is 2 with one thread building; the queue is empty and
\* IsCreatingPipelineStates is true.
C40_Witness ==
  /\ creation_threads_busy_ = 2
  /\ Cardinality(BuildingThreads) = 1
  /\ creation_queue_ = <<>>
  /\ IsCreatingPipelineStates

\* C14, as stated: ClearCache and Shutdown destroy an entry whose state is
\* nullptr (the factory returned nullptr, or the entry was removed from the
\* creation queue before it was built) without calling through the null
\* pointer: when the loop that releases the states runs, it releases only
\* states that are objects, and the process is not ended by it.
C14_NullHandleNotReleased ==
  /\ pc = "destroy" => ~ReleaseCrashes
  /\ pc # "crashed"

====
